---- MODULE Spec2Model ----
(***************************************************************************)
(* A model of the Forth virtual machine of src/forthvm.py: the dictionary  *)
(* of words, the data and return stacks, the program counter walking the   *)
(* threads of the built-in secondaries (interpret, ':', ';', init, bye)    *)
(* and of the words created at run time, and the token source.             *)
(*                                                                         *)
(* A machine is a record f; every primitive of the source is an operator   *)
(* from machines to machines.  A Python exception is a machine whose       *)
(* status is "error": every operator leaves such a machine as it is, which *)
(* is how the exception leaves Forth._run without any handler.             *)
(***************************************************************************)
EXTENDS Integers, Sequences, FiniteSets, TLC

VARIABLES
    stack,      \* Forth.stack: the data stack, top at the end
    rstack,     \* Forth.rstack: the return stack, top at the end
    dct,        \* Forth.dct: key -> value (a word reference, or what '[' / ']' / '!' store)
    words,      \* the Word objects: identity -> [name, kind, code, imm]
    last_word,  \* Forth.last_word: identity of the word added last
    pc,         \* Forth.pc: [word, i], the cursor in a thread
    fin,        \* Forth.fin: the tokens not read yet
    eof,        \* Forth.fin has been closed by its writer
    status,     \* "idle" (constructed), "running" (in _run), "halted" (_run returned), "error" (_run raised)
    err,        \* the exception that left _run
    raiser,     \* the word whose code raised it
    nfed,       \* number of tokens the writer of fin has typed
    done,       \* history: the tokens read so far, in order
    snap,       \* history: the machine as it was when interpret last read a token
    ops,        \* StackSpec: the push / pop calls made so far
    ret         \* StackSpec: what the last pop returned

vars == <<stack, rstack, dct, words, last_word, pc, fin, eof, status, err,
          raiser, nfed, done, snap, ops, ret>>

-----------------------------------------------------------------------------
(* Bounds of the model *)

MaxTokens == 3     \* tokens typed after the preloaded script
MaxOps == 4        \* StackSpec: number of push / pop calls
MaxRDepth == 6     \* frames on the return stack

-----------------------------------------------------------------------------
(* Runtime values: tagged, as Python's are typed *)

\* A value is [t: its type, n: its number if it has one, s: its text if it has one]
IntV(n) == [t |-> "int", n |-> n, s |-> ""]
StrV(s) == [t |-> "str", n |-> 0, s |-> s]
BoolV(b) == [t |-> "bool", n |-> IF b THEN 1 ELSE 0, s |-> ""]
FloatV(s) == [t |-> "float", n |-> 0, s |-> s]
\* a reference to the Word object id
W(id) == [t |-> "word", n |-> 0, s |-> id]
\* a reference to a cursor
Frame(p) == [t |-> "pc", n |-> p.i, s |-> p.word]
None == [t |-> "none", n |-> 0, s |-> ""]

IdOf(v) == v.s
CursorOf(v) == [word |-> v.s, i |-> v.n]

IsWord(v) == v.t = "word"

\* Python truth value: `not c` of zbranch
Truthy(v) ==
    CASE v.t = "int" -> v.n # 0
      [] v.t = "bool" -> v.n # 0
      [] v.t = "str" -> v.s # ""
      [] v.t = "none" -> FALSE
      [] OTHER -> TRUE

Front(s) == SubSeq(s, 1, Len(s) - 1)
Last(s) == s[Len(s)]

-----------------------------------------------------------------------------
(* Exceptions *)

IndexError == "IndexError"
AttributeError == "AttributeError"
TypeError == "TypeError"
KeyError == "KeyError"

Raised(f) == f.status = "error"
Raise(f, e) == IF Raised(f) THEN f ELSE [f EXCEPT !.status = "error", !.err = e]


-----------------------------------------------------------------------------
(* The words the module declares, in the order dir(module) gives them to   *)
(* _get_words.  ids are the Python names, names the Forth names.           *)

Primary(name, imm) == [name |-> StrV(name), kind |-> "primary", code |-> <<>>, imm |-> imm]
Secondary(name, code, imm) == [name |-> StrV(name), kind |-> "secondary", code |-> code, imm |-> imm]

bye == <<W("end")>>
\* Mutant of colon: the thread of ':' leaves the compile flag alone
colon_leaves_the_flag == <<W("word"), W("create"), W("exit")>>

colon == <<W("word"), W("create"), W("rbrac"), W("exit")>>
\* Mutant of semicolon: the thread of ';' leaves the compile flag alone
semicolon_keeps_compiling == <<W("lit"), W("exit"), W("comma"), W("exit")>>

\* Mutant of semicolon: the thread of ';' appends the exit cell twice
semicolon_appends_exit_twice ==
    <<W("lit"), W("exit"), W("comma"), W("lit"), W("exit"), W("comma"), W("lbrac"), W("exit")>>

semicolon == <<W("lit"), W("exit"), W("comma"), W("lbrac"), W("exit")>>
init == <<W("interpret"), W("exit")>>

\* interpret as it would be if the is-word branch duplicated the mode flag
\* instead of or-ing it with the immediate flag
interpret_keeps_the_immediate_flag ==
    << W("lbrac"),
       W("word"),
       W("dup"), W("zbranch"), IntV(26),
       W("word_from_name"),
       W("zbranch"), IntV(12),
       W("dup"), W("is_immediate"),
       W("forth_interpret"),
       W("dup"), W("zbranch"), IntV(3),
       W("exec_"), W("branch"), IntV(-16),
       W("comma"), W("branch"), IntV(-19),
       W("forth_interpret"),
       W("zbranch"), IntV(2),
       W("branch"), IntV(-24),
       W("tick"), W("lit"), W("comma"), W("comma"),
       W("branch"), IntV(-30),
       W("drop"), W("exit") >>

interpret ==
    << W("lbrac"),
       \* ini
       W("word"),
       W("dup"), W("zbranch"), IntV(26),
       W("word_from_name"),
       W("zbranch"), IntV(12),
       \* is_word
       W("dup"), W("is_immediate"),
       W("forth_interpret"),
       W("or_"), W("zbranch"), IntV(3),
       \* wd_interpret
       W("exec_"), W("branch"), IntV(-16),
       \* wd_compile
       W("comma"), W("branch"), IntV(-19),
       \* lit
       W("forth_interpret"),
       W("zbranch"), IntV(2),
       \* lit interpret
       W("branch"), IntV(-24),
       \* lit compile
       W("tick"), W("lit"), W("comma"), W("comma"),
       W("branch"), IntV(-30),
       \* exit
       W("drop"), W("exit") >>

\* <<id, word>> for every module attribute that is a Word, sorted by id as dir() sorts
ModuleWords ==
    << <<"add", Primary("+", FALSE)>>,
       <<"and_", Primary("and", FALSE)>>,
       <<"b_and", Primary("&", FALSE)>>,
       <<"b_or", Primary("|", FALSE)>>,
       <<"b_xor", Primary("^", FALSE)>>,
       <<"branch", Primary("branch", FALSE)>>,
       <<"bye", Secondary("bye", bye, FALSE)>>,
       <<"colon", Secondary(":", colon, TRUE)>>,
       <<"comma", Primary(",", TRUE)>>,
       <<"create", Primary("create", FALSE)>>,
       <<"depth", Primary("depth", FALSE)>>,
       <<"divmod", Primary("/mod", FALSE)>>,
       <<"drop", Primary("drop", FALSE)>>,
       <<"dup", Primary("dup", FALSE)>>,
       <<"emit", Primary("emit", FALSE)>>,
       <<"end", Primary("end", FALSE)>>,
       <<"eq", Primary("=", FALSE)>>,
       <<"exec_", Primary("exec_", FALSE)>>,
       <<"exit", Primary("exit", FALSE)>>,
       <<"fetch", Primary("@", FALSE)>>,
       <<"forth_interpret", Primary("forth_interpret", FALSE)>>,
       <<"fromr", Primary("r>", FALSE)>>,
       <<"ge", Primary(">=", FALSE)>>,
       <<"gt", Primary(">", FALSE)>>,
       <<"immediate", Primary("immediate", FALSE)>>,
       <<"init", Secondary("init", init, FALSE)>>,
       <<"interpret", Secondary("interpret", interpret, FALSE)>>,
       <<"is_immediate", Primary("is_immediate", FALSE)>>,
       <<"key", Primary("key", FALSE)>>,
       <<"lbrac", Primary("[", TRUE)>>,
       <<"le", Primary("<=", FALSE)>>,
       <<"lit", Primary("lit", FALSE)>>,
       <<"lt", Primary("<", FALSE)>>,
       <<"mul", Primary("*", FALSE)>>,
       <<"ne", Primary("<>", FALSE)>>,
       <<"neg", Primary("~", FALSE)>>,
       <<"not_", Primary("not", FALSE)>>,
       <<"or_", Primary("or", FALSE)>>,
       <<"over", Primary("over", FALSE)>>,
       <<"pick", Primary("pick", FALSE)>>,
       <<"rbrac", Primary("]", TRUE)>>,
       <<"rdrop", Primary("rdrop", FALSE)>>,
       <<"rot", Primary("rot-", FALSE)>>,
       <<"semicolon", Secondary(";", semicolon, TRUE)>>,
       <<"shl", Primary("<<", FALSE)>>,
       <<"shr", Primary(">>", FALSE)>>,
       <<"store", Primary("!", FALSE)>>,
       <<"sub", Primary("-", FALSE)>>,
       <<"swap", Primary("swap", FALSE)>>,
       <<"tick", Primary("backtick", TRUE)>>,   \* named by the backtick character, which a TLA+ string cannot hold
       <<"tor", Primary(">r", FALSE)>>,
       <<"word", Primary("word", FALSE)>>,
       <<"word_from_name", Primary("word_from_name", FALSE)>>,
       <<"x", Primary("/", FALSE)>>,
       <<"zbranch", Primary("0branch", FALSE)>> >>


-----------------------------------------------------------------------------
(* Dictionary *)

Put(d, k, v) == [n \in DOMAIN d \cup {k} |-> IF n = k THEN v ELSE d[n]]

\* Python numbers: a bool is an int
IsNum(v) == v.t \in {"int", "bool"}
Num(v) == v.n

\* A dict key: a str by its text; a number as '#n', which no token is (True and 1 are one key)
Hashable(v) == v.t = "str" \/ IsNum(v)
Key(v) == IF v.t = "str" THEN v.s ELSE "#" \o ToString(Num(v))

\* Word(name, code, imm): the constructor create and compile_word call
Word(name, code, imm) == [name |-> name, kind |-> "word", code |-> code, imm |-> imm]

\* Mutant of _add_word: a name the dictionary holds keeps its entry
_add_word_keeps_entry(f, id, w) ==
    [f EXCEPT !.words = Put(@, id, w),
              !.dct = IF Key(w.name) \in DOMAIN @ THEN @ ELSE Put(@, Key(w.name), W(id)),
              !.last_word = id]

_add_word(f, id, w) ==
    [f EXCEPT !.words = Put(@, id, w),
              !.dct = Put(@, Key(w.name), W(id)),
              !.last_word = id]

RECURSIVE _load_words(_, _)
_load_words(f, ws) ==
    IF ws = <<>> THEN f
    ELSE _load_words(_add_word(f, Head(ws)[1], Head(ws)[2]), Tail(ws))

_init_words(f) == _load_words(f, ModuleWords)

NoPC == [word |-> "", i |-> 0]
NoSnap == [tok |-> ""]

\* self.last_word = None: no word has been added
NoWord == ""

\* The attributes __init__ sets before it loads a word
Blank(script) ==
    [stack |-> <<>>, rstack |-> <<>>, dct |-> <<>>, words |-> <<>>,
     last_word |-> NoWord, pc |-> NoPC, fin |-> script, eof |-> FALSE,
     status |-> "idle", err |-> "", raiser |-> "", ret |-> None]

\* Forth(run=False, fin=script)
Forth(script) == _load_words(_init_words(Blank(script)), <<>>)

\* The identity of the next Word object: none is ever freed
NewId(f) == "w" \o ToString(Cardinality(DOMAIN f.words) - Len(ModuleWords) + 1)

-----------------------------------------------------------------------------
(* Stacks *)

push(f, v) == IF Raised(f) THEN f ELSE [f EXCEPT !.stack = Append(@, v)]

\* Mutant of pop: list.pop(0), the oldest value
pop_front(f) ==
    IF Raised(f) THEN f
    ELSE IF f.stack = <<>> THEN Raise(f, IndexError)
    ELSE [f EXCEPT !.stack = Tail(@), !.ret = Head(f.stack)]

pop(f) ==
    IF Raised(f) THEN f
    ELSE IF f.stack = <<>> THEN Raise(f, IndexError)
    ELSE [f EXCEPT !.stack = Front(@), !.ret = Last(f.stack)]

rpush(f, v) == IF Raised(f) THEN f ELSE [f EXCEPT !.rstack = Append(@, v)]

rpop(f) ==
    IF Raised(f) THEN f
    ELSE IF f.rstack = <<>> THEN Raise(f, IndexError)
    ELSE [f EXCEPT !.rstack = Front(@), !.ret = Last(f.rstack)]

-----------------------------------------------------------------------------
(* Program counter *)

PC(id) == [word |-> id, i |-> 0]

is_instruction(f, id) == f.words[id].kind = "primary"

\* PC.next(): the cell under the cursor, then the cursor moves on
PCnext(f) ==
    IF Raised(f) THEN f
    ELSE IF f.pc.word \notin DOMAIN f.words THEN Raise(f, AttributeError)
    ELSE IF f.pc.i < 0 \/ f.pc.i >= Len(f.words[f.pc.word].code) THEN Raise(f, IndexError)
    ELSE [f EXCEPT !.pc.i = @ + 1, !.ret = f.words[f.pc.word].code[f.pc.i + 1]]

\* PC.inc(i)
PCinc(f, v) ==
    IF Raised(f) THEN f
    ELSE IF ~IsNum(v) THEN Raise(f, TypeError)
    ELSE [f EXCEPT !.pc.i = @ + Num(v)]

_inc_pc(f, v) == PCinc(f, v)

_next(f) == PCnext(f)


-----------------------------------------------------------------------------
(* Translation of a token *)

\* int(ws), float(ws) and ws.lower() on the literals the token source can hold
IntLiterals == [s \in {"0", "1", "2", "3"} |-> CASE s = "0" -> 0 [] s = "1" -> 1 [] s = "2" -> 2 [] s = "3" -> 3]
FloatLiterals == {"2.5", "1e3"}
Lower == [s \in {"true", "True", "TRUE", "false", "False", "FALSE"} |->
            IF s \in {"true", "True", "TRUE"} THEN "true" ELSE "false"]

_str_to_bool(s) == Lower[s] = "true"

\* float(ws) does not raise: every literal int() takes is one of them
FloatParses(s) == s \in FloatLiterals \/ s \in DOMAIN IntLiterals

\* Mutant of _traduce: the number parses come before the dictionary
_traduce_numbers_first(f, ws) ==
    IF IsNum(ws) THEN IntV(Num(ws))
    ELSE IF ws.t = "str" /\ ws.s \in DOMAIN IntLiterals THEN IntV(IntLiterals[ws.s])
    ELSE IF ws.t = "str" /\ FloatParses(ws.s) THEN FloatV(ws.s)
    ELSE IF Hashable(ws) /\ Key(ws) \in DOMAIN f.dct THEN f.dct[Key(ws)]
    ELSE IF ws.t # "str" THEN ws
    ELSE IF ws.s \in DOMAIN Lower THEN BoolV(_str_to_bool(ws.s))
    ELSE StrV(ws.s)

\* [dct.__getitem__, int, float, _str_to_bool, str]: the first that does not raise
_traduce(f, ws) ==
    IF Hashable(ws) /\ Key(ws) \in DOMAIN f.dct THEN f.dct[Key(ws)]
    ELSE IF IsNum(ws) THEN IntV(Num(ws))
    ELSE IF ws.t # "str" THEN ws
    ELSE IF ws.s \in DOMAIN IntLiterals THEN IntV(IntLiterals[ws.s])
    ELSE IF FloatParses(ws.s) THEN FloatV(ws.s)
    ELSE IF ws.s \in DOMAIN Lower THEN BoolV(_str_to_bool(ws.s))
    ELSE StrV(ws.s)

\* compile_word: the words of def_ translated one by one
RECURSIVE Parts(_, _)
Parts(f, wns) ==
    IF wns = <<>> THEN <<>>
    ELSE <<_traduce(f, StrV(Head(wns)))>> \o Parts(f, Tail(wns))

compile_word(f, name, wns, imm) ==
    IF Raised(f) THEN f
    ELSE _add_word(f, NewId(f), Word(name, Parts(f, wns), imm))

-----------------------------------------------------------------------------
(* Instructions *)

dup(f) ==
    IF Raised(f) THEN f
    ELSE IF f.stack = <<>> THEN Raise(f, IndexError)
    ELSE push(f, Last(f.stack))

drop(f) == pop(f)

\* a + b of Python: numbers add, strings concatenate
Addable(a, b) == (IsNum(a) /\ IsNum(b)) \/ (a.t = "str" /\ b.t = "str")
Plus(a, b) == IF IsNum(a) THEN IntV(Num(a) + Num(b)) ELSE StrV(a.s \o b.s)

add(f) ==
    LET f1 == pop(f)
        f2 == pop(f1)
    IN  IF Raised(f2) THEN f2
        ELSE IF ~Addable(f2.ret, f1.ret) THEN Raise(f2, TypeError)
        ELSE push(f2, Plus(f2.ret, f1.ret))

\* a * b of Python on numbers
Times(a, b) == IntV(Num(a) * Num(b))

mul(f) ==
    LET f1 == pop(f)
        f2 == pop(f1)
    IN  IF Raised(f2) THEN f2
        ELSE IF ~(IsNum(f1.ret) /\ IsNum(f2.ret)) THEN Raise(f2, "NotModelled")
        ELSE push(f2, Times(f2.ret, f1.ret))

\* Mutant of or_: `a and b`
or_and(f) ==
    LET f1 == pop(f)
        f2 == pop(f1)
    IN  IF Raised(f2) THEN f2
        ELSE push(f2, IF Truthy(f2.ret) THEN f1.ret ELSE f2.ret)

or_(f) ==
    LET f1 == pop(f)
        f2 == pop(f1)
    IN  IF Raised(f2) THEN f2
        ELSE push(f2, IF Truthy(f2.ret) THEN f2.ret ELSE f1.ret)

\* branch as it would be if the offset were counted from its operand
branch_from_its_operand(f) ==
    LET f1 == _next(f)
    IN  _inc_pc(f1, IF IsNum(f1.ret) THEN IntV(Num(f1.ret) - 1) ELSE f1.ret)

branch(f) ==
    LET f1 == _next(f)
    IN  _inc_pc(f1, f1.ret)

\* Mutant of zbranch: the offset is counted from the offset cell, not from behind it
zbranch_from_offset_cell(f) ==
    LET f1 == pop(f)
        f2 == _next(f1)
    IN  IF Raised(f2) THEN f2
        ELSE IF ~Truthy(f1.ret) THEN _inc_pc(f2, IntV(Num(f2.ret) - 1))
        ELSE f2

zbranch(f) ==
    LET f1 == pop(f)
        f2 == _next(f1)
    IN  IF Raised(f2) THEN f2
        ELSE IF ~Truthy(f1.ret) THEN _inc_pc(f2, f2.ret)
        ELSE f2

\* exit as it would be if the frame it returns to were left on the return stack
exit_keeps_the_frame(f) ==
    LET f1 == rpop(f)
    IN  IF Raised(f1) THEN f1
        ELSE [f1 EXCEPT !.pc = IF f1.ret.t = "pc" THEN CursorOf(f1.ret) ELSE NoPC,
                        !.rstack = f.rstack]

exit(f) ==
    LET f1 == rpop(f)
    IN  IF Raised(f1) THEN f1
        ELSE [f1 EXCEPT !.pc = IF f1.ret.t = "pc" THEN CursorOf(f1.ret) ELSE NoPC]

\* Mutant of word: the token that arrived last is the one read
word_reads_newest(f) ==
    IF Raised(f) THEN f
    ELSE IF f.fin = <<>> THEN push(f, StrV(""))
    ELSE push([f EXCEPT !.fin = Front(@)], StrV(Last(f.fin)))

\* Reads a token from fin: the empty string once fin is exhausted
word(f) ==
    IF Raised(f) THEN f
    ELSE IF f.fin = <<>> THEN push(f, StrV(""))
    ELSE push([f EXCEPT !.fin = Tail(@)], StrV(Head(f.fin)))

\* Mutant of lit: the cell is pushed and the cursor stays on it
lit_leaves_the_cursor(f) ==
    LET f1 == _next(f)
    IN  IF Raised(f1) THEN f1 ELSE [push(f1, f1.ret) EXCEPT !.pc = f.pc]

lit(f) ==
    LET f1 == _next(f)
    IN  push(f1, f1.ret)

\* Mutant of tick: pushes the cell behind it and does not step over it
tick_keeps_cursor(f) ==
    LET f1 == _next(f)
    IN  IF Raised(f1) THEN f1 ELSE push(f, f1.ret)

tick(f) ==
    LET f1 == _next(f)
    IN  push(f1, f1.ret)

\* Mutant of comma: the cell goes to the front of the body
comma_in_front(f) ==
    LET f1 == pop(f)
    IN  IF Raised(f1) THEN f1
        ELSE IF f1.words[f1.last_word].kind # "word" THEN Raise(f1, AttributeError)
        ELSE [f1 EXCEPT !.words[f1.last_word].code = <<f1.ret>> \o @]

\* Mutant of comma: the value is appended and stays on the data stack
comma_keeps_the_value(f) ==
    IF Raised(f) THEN f
    ELSE IF f.stack = <<>> THEN Raise(f, IndexError)
    ELSE IF f.last_word = NoWord THEN Raise(f, AttributeError)
    ELSE IF f.words[f.last_word].kind # "word" THEN Raise(f, AttributeError)
    ELSE [f EXCEPT !.words[f.last_word].code = Append(@, Last(f.stack))]

comma(f) ==
    LET f1 == pop(f)
    IN  IF Raised(f1) THEN f1
        ELSE IF f1.last_word = NoWord THEN Raise(f1, AttributeError)
        ELSE IF f1.words[f1.last_word].kind # "word" THEN Raise(f1, AttributeError)
        ELSE [f1 EXCEPT !.words[f1.last_word].code = Append(@, f1.ret)]

lbrac(f) == IF Raised(f) THEN f ELSE [f EXCEPT !.dct = Put(@, "forth_interpret", BoolV(TRUE))]

rbrac(f) == IF Raised(f) THEN f ELSE [f EXCEPT !.dct = Put(@, "forth_interpret", BoolV(FALSE))]

forth_interpret(f) ==
    IF Raised(f) THEN f
    ELSE IF "forth_interpret" \notin DOMAIN f.dct THEN Raise(f, KeyError)
    ELSE push(f, f.dct["forth_interpret"])

is_immediate(f) ==
    LET f1 == pop(f)
    IN  IF Raised(f1) THEN f1
        ELSE IF ~IsWord(f1.ret) THEN Raise(f1, AttributeError)
        ELSE push(f1, BoolV(f1.words[IdOf(f1.ret)].imm))

\* Mutant of word_from_name: the name is pushed back instead of its translation
word_from_name_pushes_the_name(f) ==
    LET f1 == pop(f)
    IN  IF Raised(f1) THEN f1
        ELSE push(push(f1, f1.ret), BoolV(IsWord(_traduce(f1, f1.ret))))

word_from_name(f) ==
    LET f1 == pop(f)
    IN  IF Raised(f1) THEN f1
        ELSE LET v == _traduce(f1, f1.ret)
             IN  push(push(f1, v), BoolV(IsWord(v)))

\* Mutant of create: a name the dictionary holds a word for gets that Word
\* object back, emptied, instead of a new one
create_reuses_object(f) ==
    LET f1 == pop(f)
    IN  IF Raised(f1) THEN f1
        ELSE IF ~Hashable(f1.ret) THEN Raise(f1, TypeError)
        ELSE IF Key(f1.ret) \in DOMAIN f1.dct /\ IsWord(f1.dct[Key(f1.ret)])
        THEN _add_word(f1, IdOf(f1.dct[Key(f1.ret)]), Word(f1.ret, <<>>, FALSE))
        ELSE _add_word(f1, NewId(f1), Word(f1.ret, <<>>, FALSE))

create(f) ==
    LET f1 == pop(f)
    IN  IF Raised(f1) THEN f1
        ELSE IF ~Hashable(f1.ret) THEN Raise(f1, TypeError)
        ELSE _add_word(f1, NewId(f1), Word(f1.ret, <<>>, FALSE))

immediate(f) ==
    IF Raised(f) THEN f
    ELSE IF f.last_word = NoWord THEN Raise(f, AttributeError)
    ELSE [f EXCEPT !.words[f.last_word].imm = TRUE]

-----------------------------------------------------------------------------
(* Execution *)

\* Mutant of _exec_word: the cursor moves to the word and no frame is saved
_exec_word_saves_nothing(f, id) ==
    IF Raised(f) THEN f ELSE [f EXCEPT !.pc = PC(id)]

_exec_word(f, id) ==
    LET f1 == rpush(f, Frame(f.pc))
    IN  IF Raised(f1) THEN f1 ELSE [f1 EXCEPT !.pc = PC(id)]

RECURSIVE _exec(_, _)

exec_(f) ==
    LET f1 == pop(f)
    IN  _exec(f1, f1.ret)

\* word.code(self), for the instructions the token source can reach
Code(f, id) ==
    CASE id = "dup" -> dup(f)
      [] id = "drop" -> drop(f)
      [] id = "add" -> add(f)
      [] id = "mul" -> mul(f)
      [] id = "or_" -> or_(f)
      [] id = "branch" -> branch(f)
      [] id = "zbranch" -> zbranch(f)
      [] id = "exit" -> exit(f)
      [] id = "word" -> word(f)
      [] id = "lit" -> lit(f)
      [] id = "tick" -> tick(f)
      [] id = "comma" -> comma(f)
      [] id = "lbrac" -> lbrac(f)
      [] id = "rbrac" -> rbrac(f)
      [] id = "forth_interpret" -> forth_interpret(f)
      [] id = "is_immediate" -> is_immediate(f)
      [] id = "word_from_name" -> word_from_name(f)
      [] id = "create" -> create(f)
      [] id = "immediate" -> immediate(f)
      [] id = "exec_" -> exec_(f)
      [] id = "end" -> Raise(f, TypeError)
      [] OTHER -> Raise(f, "NotModelled")

\* _exec_instruction as it would be if a failing instruction unwound the
\* return stack
_exec_instruction_unwinds(f, id) ==
    LET g == Code(f, id)
    IN  IF Raised(g) /\ g.raiser = "" THEN [g EXCEPT !.raiser = id, !.rstack = <<>>] ELSE g

_exec_instruction(f, id) ==
    LET g == Code(f, id)
    IN  IF Raised(g) /\ g.raiser = "" THEN [g EXCEPT !.raiser = id] ELSE g

_exec(f, w) ==
    IF Raised(f) THEN f
    ELSE IF ~IsWord(w) THEN Raise(f, AttributeError)
    ELSE IF is_instruction(f, IdOf(w)) THEN _exec_instruction(f, IdOf(w))
    ELSE _exec_word(f, IdOf(w))

\* _run(): up to the loop
_run(f) == [f EXCEPT !.pc = PC(IdOf(f.dct["init"])), !.status = "running"]

\* _run(word), word not None: up to the loop
_run_word(f, id) ==
    IF is_instruction(f, id) THEN _exec_instruction(f, id)
    ELSE [f EXCEPT !.pc = PC(id), !.status = "running"]

\* One turn of the loop of _run
Turn(f) ==
    LET f1 == _next(f)
    IN  IF Raised(f1) THEN f1
        ELSE IF f1.ret = W("end") THEN [f1 EXCEPT !.status = "halted"]
        ELSE _exec(f1, f1.ret)


-----------------------------------------------------------------------------
(* The machine of the state, and the state of a machine *)

Machine ==
    [stack |-> stack, rstack |-> rstack, dct |-> dct, words |-> words,
     last_word |-> last_word, pc |-> pc, fin |-> fin, eof |-> eof,
     status |-> status, err |-> err, raiser |-> raiser, ret |-> None]

Commit(f) ==
    /\ stack' = f.stack
    /\ rstack' = f.rstack
    /\ dct' = f.dct
    /\ words' = f.words
    /\ last_word' = f.last_word
    /\ pc' = f.pc
    /\ fin' = f.fin
    /\ eof' = f.eof
    /\ status' = f.status
    /\ err' = f.err
    /\ raiser' = f.raiser

\* The token source: what a writer may type, and what fin holds at the start
Tokens == {":", ";", "dup", "+", "double", "2", "immediate", ",", "]", "create", "bye"}
DoubleDef == <<":", "double", "dup", "+", ";">>
DoubleHead == <<":", "double">>
Scripts == {<<>>, DoubleHead, DoubleDef}

\* The cell the loop of _run fetches next, if there is one
HasCell == pc.word \in DOMAIN words /\ pc.i >= 0 /\ pc.i < Len(words[pc.word].code)
Cell == IF HasCell THEN words[pc.word].code[pc.i + 1] ELSE None

\* interpret is at `ini`, about to read a token
AtIni == status = "running" /\ pc = [word |-> "interpret", i |-> 1]

\* The word whose code this turn of the loop runs: the cell, or what exec_ is given
Dispatched ==
    IF Cell = W("exec_") /\ stack # <<>> /\ IsWord(Last(stack)) /\ Last(stack) # W("exec_")
    THEN Last(stack)
    ELSE Cell

\* A turn of the loop, with the history it leaves
TurnLoop ==
    /\ Commit(Turn(Machine))
    /\ done' = IF Dispatched = W("word") /\ fin # <<>> THEN Append(done, Head(fin)) ELSE done
    /\ snap' = IF AtIni THEN [tok |-> IF fin = <<>> THEN "" ELSE Head(fin), f |-> Machine] ELSE snap
    /\ UNCHANGED <<nfed, ops, ret>>

\* The loop is about to run the code of the instruction id
Dispatches(id) == status = "running" /\ HasCell /\ Dispatched = W(id)

-----------------------------------------------------------------------------
(* Actions *)

\* The state right after Forth(run=False, fin=script)
Constructed(f) ==
    /\ stack = f.stack
    /\ rstack = f.rstack
    /\ dct = f.dct
    /\ words = f.words
    /\ last_word = f.last_word
    /\ pc = f.pc
    /\ fin = f.fin
    /\ eof = f.eof
    /\ status = f.status
    /\ err = f.err
    /\ raiser = f.raiser

Init ==
    \E script \in Scripts :
        /\ Constructed(Forth(script))
        /\ nfed = 0
        /\ done = <<>>
        /\ snap = NoSnap
        /\ ops = <<>>
        /\ ret = None


\* Forth._run() is called
Run ==
    /\ status = "idle"
    /\ Commit(_run(Machine))
    /\ UNCHANGED <<nfed, done, snap, ops, ret>>

\* The writer of fin types a token while the machine waits for one
Feed(tok) ==
    /\ status = "running"
    /\ HasCell
    /\ Dispatched = W("word")
    /\ fin = <<>>
    /\ ~eof
    /\ nfed < MaxTokens
    /\ fin' = <<tok>>
    /\ nfed' = nfed + 1
    /\ UNCHANGED <<stack, rstack, dct, words, last_word, pc, eof, status, err,
                   raiser, done, snap, ops, ret>>

\* The writer of fin closes it
Close ==
    /\ status = "running"
    /\ HasCell
    /\ Dispatched = W("word")
    /\ fin = <<>>
    /\ ~eof
    /\ eof' = TRUE
    /\ UNCHANGED <<stack, rstack, dct, words, last_word, pc, fin, status, err,
                   raiser, nfed, done, snap, ops, ret>>

\* word: blocks until fin holds a token or is closed
Word_ == Dispatches("word") /\ (fin # <<>> \/ eof) /\ TurnLoop
Dup == Dispatches("dup") /\ TurnLoop
Drop == Dispatches("drop") /\ TurnLoop
Add == Dispatches("add") /\ TurnLoop
Mul == Dispatches("mul") /\ TurnLoop
Or == Dispatches("or_") /\ TurnLoop
Branch == Dispatches("branch") /\ TurnLoop
ZBranch == Dispatches("zbranch") /\ TurnLoop
Exit == Dispatches("exit") /\ TurnLoop
Lit == Dispatches("lit") /\ TurnLoop
Tick == Dispatches("tick") /\ TurnLoop
Comma == Dispatches("comma") /\ TurnLoop
LBrac == Dispatches("lbrac") /\ TurnLoop
RBrac == Dispatches("rbrac") /\ TurnLoop
ForthInterpret == Dispatches("forth_interpret") /\ TurnLoop
IsImmediate == Dispatches("is_immediate") /\ TurnLoop
WordFromName == Dispatches("word_from_name") /\ TurnLoop
Create == Dispatches("create") /\ TurnLoop
Immediate == Dispatches("immediate") /\ TurnLoop

\* The loop meets `end`: _run returns
End ==
    /\ status = "running"
    /\ HasCell
    /\ Cell = W("end")
    /\ TurnLoop

\* A secondary or created word is called: _exec_word
Call ==
    /\ status = "running"
    /\ HasCell
    /\ IsWord(Dispatched)
    /\ ~is_instruction(Machine, IdOf(Dispatched))
    /\ Len(rstack) < MaxRDepth
    /\ TurnLoop

\* The turn raises before any instruction runs: no cell under the cursor, a
\* cell that is no word, or an exec_ of what is no word
Fault ==
    /\ status = "running"
    /\ \/ ~HasCell
       \/ ~IsWord(Dispatched)
       \/ Dispatched = W("exec_")
    /\ TurnLoop

Next ==
    \/ Run
    \/ \E tok \in Tokens : Feed(tok)
    \/ Close
    \/ Word_ \/ Dup \/ Drop \/ Add \/ Or \/ Branch \/ ZBranch \/ Exit
    \/ Lit \/ Tick \/ Comma \/ LBrac \/ RBrac \/ ForthInterpret \/ IsImmediate
    \/ WordFromName \/ Create \/ Immediate
    \/ End \/ Call \/ Fault

Spec == Init /\ [][Next]_vars


-----------------------------------------------------------------------------
(* Vocabulary of the properties *)

\* The compile flag, as forth_interpret reads it and zbranch tests it
Interpreting(d) == Truthy(d["forth_interpret"])
Compiling(d) == ~Truthy(d["forth_interpret"])

\* interpret has read a token since the run started
HasRead == "f" \in DOMAIN snap

\* The machine as it was when interpret read its last token, and that token
Before == snap.f
Tok == snap.tok

\* tok names a word in the dictionary d
NamesWord(d, tok) == tok \in DOMAIN d /\ IsWord(d[tok])

\* The last defined word of f was made by create: a word is under construction
UnderConstruction(f) == f.words[f.last_word].kind = "word"

\* Cursor positions in the thread of interpret
AtWdInterpret == status = "running" /\ pc = [word |-> "interpret", i |-> 14]
AtWdCompile == status = "running" /\ pc = [word |-> "interpret", i |-> 17]

\* The run is over: _run returned or raised
Over == status \in {"halted", "error"}

-----------------------------------------------------------------------------
(* C1 *)

DoubleOf(tok) == IntV(2 * IntLiterals[tok])

\* C1: on a fresh machine, once `: double dup + ;` and then `n double` have
\* been read and processed, the data stack is exactly [2n], the compile flag
\* is 'interpreting', and the dictionary holds a word named double whose
\* immediate flag is false; this is still so when the run is over.
C1_Double ==
    \A n \in DOMAIN IntLiterals :
        (done = DoubleDef \o <<n, "double">> /\ (AtIni \/ Over))
            => /\ stack = <<DoubleOf(n)>>
               /\ Interpreting(dct)
               /\ NamesWord(dct, "double")
               /\ words[IdOf(dct["double"])].name = StrV("double")
               /\ words[IdOf(dct["double"])].imm = FALSE

C1_Witness ==
    /\ done = DoubleDef \o <<"2", "double">>
    /\ AtIni
    /\ stack = <<IntV(4)>>

-----------------------------------------------------------------------------
(* C2 *)

\* C2, as stated: none of the built-in words ';', ':' and immediate is ever
\* appended to a word under construction: no created word holds one of them
\* as a cell.
C2_AsStated ==
    \A id \in DOMAIN words :
        words[id].kind = "word" =>
            \A k \in 1..Len(words[id].code) :
                words[id].code[k] \notin {W("semicolon"), W("colon"), W("immediate")}

\* C2, amended: a word whose immediate flag is set is executed when its token
\* is read, also while compiling, and is never appended.  Whenever interpret
\* has classified the token it read as a word, it is at wd_interpret (about to
\* execute that word) exactly when the word is immediate or the flag is
\* 'interpreting', and at wd_compile (about to append it) otherwise; the
\* built-in ';' and ':' are immediate, the built-in immediate is not.
C2_ImmediateExecuted ==
    /\ (AtWdInterpret \/ AtWdCompile) =>
          /\ HasRead
          /\ stack # <<>>
          /\ NamesWord(Before.dct, Tok)
          /\ Last(stack) = Before.dct[Tok]
          /\ AtWdInterpret <=> (words[IdOf(Last(stack))].imm \/ Interpreting(dct))
    /\ words["semicolon"].imm
    /\ words["colon"].imm
    /\ ~(words["immediate"].imm)

C2_Witness ==
    /\ AtWdInterpret
    /\ Compiling(dct)
    /\ Last(stack) = W("semicolon")


-----------------------------------------------------------------------------
(* C3 *)

\* The token interpret read last names a non-immediate word and was read
\* while compiling, with a word under construction
PlainWordWhileCompiling ==
    /\ HasRead
    /\ Tok # ""
    /\ Compiling(Before.dct)
    /\ NamesWord(Before.dct, Tok)
    /\ ~(Before.words[IdOf(Before.dct[Tok])].imm)
    /\ UnderConstruction(Before)

\* C3: while compiling, a token naming a non-immediate word is appended as
\* exactly one cell at the end of the body of the last defined word and is not
\* executed: when interpret is back at ini the words are those of before the
\* token but for that one cell, and the data stack, the return stack, the
\* dictionary and the last defined word are as before; processing the token
\* raises nothing.
C3_CompileAppends ==
    PlainWordWhileCompiling =>
        /\ status # "error"
        /\ AtIni =>
              /\ words = [Before.words EXCEPT
                             ![Before.last_word].code = Append(@, Before.dct[Tok])]
              /\ stack = Before.stack
              /\ rstack = Before.rstack
              /\ dct = Before.dct
              /\ last_word = Before.last_word

C3_Witness ==
    /\ PlainWordWhileCompiling
    /\ AtIni
    /\ Tok = "dup"
    /\ Last(words[last_word].code) = W("dup")

-----------------------------------------------------------------------------
(* C4 *)

\* The loop is about to run zbranch from a thread, on a non-empty data stack
\* and with an integer offset cell behind it
ZBranchInThread ==
    /\ status = "running"
    /\ Cell = W("zbranch")
    /\ stack # <<>>
    /\ pc.i + 1 < Len(words[pc.word].code)
    /\ words[pc.word].code[pc.i + 2].t = "int"

\* The cursor index of the offset cell of the zbranch under the cursor, and the offset
OffsetIndex == pc.i + 1
Offset == words[pc.word].code[pc.i + 2].n

\* C4: 0branch pops exactly one value; if it is truthy the cursor is left on
\* the cell right after the offset cell; if it is falsy the cursor is moved
\* by the offset from there: with an offset of +3, three cells further.
C4_ZBranch ==
    [][ZBranchInThread =>
          /\ status' = "running"
          /\ stack' = Front(stack)
          /\ pc'.word = pc.word
          /\ Truthy(Last(stack)) => pc'.i = OffsetIndex + 1
          /\ ~Truthy(Last(stack)) => pc'.i = OffsetIndex + 1 + Offset
          /\ (~Truthy(Last(stack)) /\ Offset = 3) => pc'.i = OffsetIndex + 4]_vars

\* 0branch has jumped over three cells: wd_compile is entered by the zbranch
\* of offset 3 alone
C4_Witness ==
    /\ AtWdCompile
    /\ interpret[14] = IntV(3)
    /\ interpret[13] = W("zbranch")

-----------------------------------------------------------------------------
(* C5 *)

\* The token interpret read last is no word of the dictionary and was read
\* while compiling, with a word under construction
LiteralWhileCompiling ==
    /\ HasRead
    /\ Tok # ""
    /\ Compiling(Before.dct)
    /\ ~IsWord(_traduce(Before, StrV(Tok)))
    /\ UnderConstruction(Before)

\* The loop is about to run lit from a thread that holds a cell behind it
LitInThread ==
    /\ status = "running"
    /\ Cell = W("lit")
    /\ pc.i + 1 < Len(words[pc.word].code)

\* C5: while compiling, a token that translates to a literal v appends exactly
\* the cells lit, v to the word under construction and leaves the data stack
\* (and everything else) as it was, raising nothing; and lit, when the thread
\* runs, pushes the cell behind it on the data stack and steps over it.
C5_CompileLiteral ==
    /\ [](LiteralWhileCompiling =>
            /\ status # "error"
            /\ AtIni =>
                  /\ words = [Before.words EXCEPT
                                 ![Before.last_word].code =
                                     @ \o <<W("lit"), _traduce(Before, StrV(Tok))>>]
                  /\ stack = Before.stack
                  /\ rstack = Before.rstack
                  /\ dct = Before.dct)
    /\ [][LitInThread =>
            /\ status' = "running"
            /\ stack' = Append(stack, words[pc.word].code[pc.i + 2])
            /\ pc' = [pc EXCEPT !.i = @ + 2]]_vars

\* A literal compiled into a created word has been pushed by running that word
C5_Witness ==
    /\ status = "running"
    /\ pc.word \in DOMAIN words
    /\ words[pc.word].kind = "word"
    /\ pc.i = 2
    /\ words[pc.word].code[1] = W("lit")
    /\ stack # <<>>
    /\ Last(stack) = words[pc.word].code[2]


-----------------------------------------------------------------------------
(* C6 *)

\* C6: exit run with an empty return stack ends the run normally, without an
\* error and without another fetch; with a non-empty return stack it pops
\* exactly one frame, which becomes the cursor.
C6_ExitHalts ==
    [][Dispatches("exit") =>
          IF rstack = <<>>
          THEN status' = "halted" /\ err' = ""
          ELSE /\ status' = "running"
               /\ rstack' = Front(rstack)
               /\ pc' = CursorOf(Last(rstack))]_vars

-----------------------------------------------------------------------------
(* C7 *)

\* interpret read the empty token: the token source is exhausted
ReadEof == HasRead /\ Tok = ""

\* C7: once the token reader has returned the empty token the run ends without
\* an error, with the data stack and the dictionary as they were when it was
\* read.
C7_EofGraceful ==
    (ReadEof /\ Over) =>
        /\ status = "halted"
        /\ stack = Before.stack
        /\ dct = Before.dct
        /\ words = Before.words

-----------------------------------------------------------------------------
(* C8 *)

\* The run was left by the IndexError of a pop (or an index) on an empty stack
\* in the code of an instruction
Underflow == status = "error" /\ err = IndexError /\ raiser # ""

\* C8: after a run aborted by a stack underflow the compile flag is
\* 'interpreting'.
C8_UnderflowResets == Underflow => Interpreting(dct)

-----------------------------------------------------------------------------
(* C9 *)

NCreated == Cardinality(DOMAIN words) - Len(ModuleWords)
CreatedId(k) == "w" \o ToString(k)

\* Every created word that no later created word shares its name with is what
\* the dictionary holds under that name
LatestWins ==
    \A i \in 1..NCreated :
        (\A j \in (i + 1)..NCreated :
            Key(words[CreatedId(j)].name) # Key(words[CreatedId(i)].name))
        => dct[Key(words[CreatedId(i)].name)] = W(CreatedId(i))

-----------------------------------------------------------------------------
(* StackSpec: push and pop called in any order on the data stack of a machine *)

Values == {IntV(1), IntV(2), StrV("a")}

\* The machine a caller calls into: an exception of an earlier call was caught
Caught == [Machine EXCEPT !.status = "idle", !.err = ""]

StackInit ==
    /\ Constructed(Forth(<<>>))
    /\ nfed = 0
    /\ done = <<>>
    /\ snap = NoSnap
    /\ ops = <<>>
    /\ ret = None

Push(v) ==
    /\ Len(ops) < MaxOps
    /\ LET f == push(Caught, v)
       IN  stack' = f.stack /\ status' = f.status /\ err' = f.err
    /\ ops' = Append(ops, [op |-> "push", v |-> v])
    /\ UNCHANGED <<rstack, dct, words, last_word, pc, fin, eof, raiser, nfed,
                   done, snap, ret>>

Pop ==
    /\ Len(ops) < MaxOps
    /\ LET f == pop(Caught)
       IN  stack' = f.stack /\ status' = f.status /\ err' = f.err /\ ret' = f.ret
    /\ ops' = Append(ops, [op |-> "pop", v |-> None])
    /\ UNCHANGED <<rstack, dct, words, last_word, pc, fin, eof, raiser, nfed,
                   done, snap>>

StackNext == (\E v \in Values : Push(v)) \/ Pop

StackSpec == StackInit /\ [][StackNext]_vars

\* The number of values pushed and not popped after the calls h: a pop of
\* nothing pops nothing
RECURSIVE Depth(_)
Depth(h) ==
    IF h = <<>> THEN 0
    ELSE IF Last(h).op = "push" THEN Depth(Front(h)) + 1
    ELSE IF Depth(Front(h)) = 0 THEN 0
    ELSE Depth(Front(h)) - 1

\* The value pushed most recently in h[1..k] and not popped since, skipping
\* `skip` values that later pops took
RECURSIVE Pending(_, _, _)
Pending(h, k, skip) ==
    IF h[k].op = "push"
    THEN IF skip = 0 THEN h[k].v ELSE Pending(h, k - 1, skip - 1)
    ELSE IF Depth(SubSeq(h, 1, k - 1)) = 0 THEN Pending(h, k - 1, skip)
    ELSE Pending(h, k - 1, skip + 1)

\* C10: every pop returns the value pushed most recently and not yet popped,
\* and a pop of the empty stack raises IndexError and returns nothing.
C10_Lifo ==
    (ops # <<>> /\ Last(ops).op = "pop") =>
        IF Depth(Front(ops)) = 0
        THEN status = "error" /\ err = IndexError /\ stack = <<>>
        ELSE status # "error" /\ ret = Pending(Front(ops), Len(ops) - 1, 0)
                              /\ Len(stack) = Depth(ops)

C10_Witness ==
    /\ Len(ops) = 4
    /\ ops[1] = [op |-> "push", v |-> IntV(1)]
    /\ ops[2] = [op |-> "push", v |-> StrV("a")]
    /\ ops[3].op = "pop"
    /\ ops[4].op = "pop"
    /\ ret = IntV(1)
    /\ stack = <<>>

-----------------------------------------------------------------------------
(* TraduceSpec: compile_word and _traduce called in any order on a machine *)

MaxCalls == 3

\* The names a caller defines and the tokens it has translated
DefNames == {"2", "true", "foo"}
TraduceTokens == {"2", "3", "2.5", "True", "FALSE", "foo", "dup", ""}

TraduceInit ==
    /\ Constructed(Forth(<<>>))
    /\ nfed = 0
    /\ done = <<>>
    /\ snap = NoSnap
    /\ ops = <<>>
    /\ ret = None

\* forth.compile_word(name, 'dup')
Define(name) ==
    /\ Len(ops) < MaxCalls
    /\ LET f == compile_word(Caught, StrV(name), <<"dup">>, FALSE)
       IN  dct' = f.dct /\ words' = f.words /\ last_word' = f.last_word
    /\ ops' = Append(ops, [op |-> "define", v |-> StrV(name)])
    /\ ret' = None
    /\ UNCHANGED <<stack, rstack, pc, fin, eof, status, err, raiser, nfed, done, snap>>

\* forth._traduce(tok)
Traduce(tok) ==
    /\ Len(ops) < MaxCalls
    /\ ret' = _traduce(Caught, StrV(tok))
    /\ ops' = Append(ops, [op |-> "traduce", v |-> StrV(tok)])
    /\ UNCHANGED <<stack, rstack, dct, words, last_word, pc, fin, eof, status, err,
                   raiser, nfed, done, snap>>

TraduceNext == (\E name \in DefNames : Define(name)) \/ (\E tok \in TraduceTokens : Traduce(tok))

TraduceSpec == TraduceInit /\ [][TraduceNext]_vars

\* The token of the last call, which was a _traduce
Traduced == ops # <<>> /\ Last(ops).op = "traduce"
LastTok == Last(ops).v.s

\* C11: _traduce returns what the dictionary holds under the token if it holds
\* anything, also for a token that reads as a number or a boolean; otherwise
\* the int the token parses to; otherwise the float; otherwise the boolean of
\* true / false in any case; otherwise the token itself as a string; and it
\* raises nothing.
C11_TraduceOrder ==
    Traduced =>
        /\ status # "error"
        /\ LastTok \in DOMAIN dct => ret = dct[LastTok]
        /\ LastTok \notin DOMAIN dct =>
              /\ LastTok = "2" => ret = IntV(2)
              /\ LastTok = "3" => ret = IntV(3)
              /\ LastTok = "2.5" => ret = FloatV("2.5")
              /\ LastTok = "True" => ret = BoolV(TRUE)
              /\ LastTok = "FALSE" => ret = BoolV(FALSE)
              /\ LastTok \in {"foo", ""} => ret = StrV(LastTok)

\* '2' and 'true' were defined as words, and the token 2 was translated to the word
C11_Witness ==
    /\ Len(ops) = 3
    /\ ops[1] = [op |-> "define", v |-> StrV("2")]
    /\ ops[3] = [op |-> "traduce", v |-> StrV("2")]
    /\ IsWord(ret)
    /\ words[IdOf(ret)].name = StrV("2")
    /\ words[IdOf(ret)].code = <<W("dup")>>

-----------------------------------------------------------------------------
(* C12 *)

\* A second instance, constructed and left alone.  Its stacks and its dict are
\* objects of its own; the Word objects its dict holds are the attributes of
\* the module, the very objects every other instance loads (words is the one
\* heap of Word objects).
Other == Forth(<<>>)

\* C12: nothing the running instance processes changes a word reachable from
\* the dictionary of the other instance: every Word object the other instance
\* loaded still has the body and the immediate flag it was loaded with.
C12_Isolated ==
    \A id \in DOMAIN Other.words :
        /\ id \in DOMAIN words
        /\ words[id].code = Other.words[id].code
        /\ words[id].imm = Other.words[id].imm

-----------------------------------------------------------------------------
(* C13 *)

\* s is a prefix of t
IsPrefix(s, t) == Len(s) <= Len(t) /\ SubSeq(t, 1, Len(s)) = s

\* interpret has just run word_from_name on the token it read: the value and
\* the is-a-word flag are the two topmost cells of the data stack
AtTranslated == status = "running" /\ pc = [word |-> "interpret", i |-> 6]
Translated == stack[Len(stack) - 1]

\* A Word named tok was loaded at construction or made by a create since
Defined(tok) ==
    \E id \in DOMAIN words : words[id].name = StrV(tok)

-----------------------------------------------------------------------------
(* SqSpec: sq = compile_word('sq', 'dup *') run with n on the data stack,
   by _run(sq) and by the token sq read by the outer interpreter *)

MaxSq == 3
SqInputs == 0..MaxSq
SqBody == <<"dup", "*">>

\* The machine on which sq has been defined
WithSq == compile_word(Forth(<<>>), StrV("sq"), SqBody, FALSE)
SqId == WithSq.last_word

\* forth.push(n); forth._run(sq)
SqRunInit(n) == Constructed(_run_word(push(WithSq, IntV(n)), SqId))

\* Forth(fin = 'n sq') with sq defined, and then _run()
SqStreamInit(n) == Constructed([WithSq EXCEPT !.fin = <<ToString(n), "sq">>])

SqInit ==
    \E n \in SqInputs :
        /\ SqRunInit(n) \/ SqStreamInit(n)
        /\ nfed = 0
        /\ done = <<>>
        /\ snap = NoSnap
        /\ ops = <<[op |-> "sq", v |-> IntV(n)]>>
        /\ ret = None

SqNext ==
    \/ Run
    \/ Word_ \/ Dup \/ Mul \/ Or \/ Branch \/ ZBranch
    \/ LBrac \/ ForthInterpret \/ IsImmediate \/ WordFromName
    \/ Call \/ Fault

SqSpec == SqInit /\ [][SqNext]_vars

\* The integer sq is run with, and the cursor behind the last cell of sq
SqInput == ops[1].v.n
SqDone == pc = [word |-> SqId, i |-> Len(SqBody)]

\* C14: running sq with n on the data stack raises no error, and once the
\* body of sq has run the data stack is exactly [n * n].
C14_SqCompletes ==
    /\ status # "error"
    /\ SqDone => stack = <<IntV(SqInput * SqInput)>>

\* What the code does: the body leaves [n * n], and the fetch behind the last
\* cell of sq raises IndexError out of _run
C14_SqFallsOffTheEnd ==
    /\ SqDone => stack = <<IntV(SqInput * SqInput)>>
    /\ status = "error" => (SqDone /\ err = IndexError /\ raiser = "")
    /\ status # "halted"

-----------------------------------------------------------------------------
(* C15 *)

\* The name the last call of compile_word defined
Defining == ops # <<>> /\ Last(ops).op = "define"

\* C15: every definition succeeds, puts the word under its name in place of
\* whatever the name held, leaves every other entry alone and makes the word
\* the last defined one, so that after any sequence of definitions the
\* dictionary holds the last defined word under its name; before the first
\* word is added there is no last word (None), and the instructions that
\* take the last word fail.
C15_DefineOverwrites ==
    /\ [](/\ status # "error"
          /\ last_word # NoWord
          /\ dct[Key(words[last_word].name)] = W(last_word)
          /\ Defining => /\ words[last_word].name = Last(ops).v
                         /\ words[last_word].kind = "word")
    /\ [][Len(ops') > Len(ops) /\ ops'[Len(ops')].op = "define" =>
            /\ last_word' \notin DOMAIN words
            /\ dct'[ops'[Len(ops')].v.s] = W(last_word')
            /\ DOMAIN dct' = DOMAIN dct \cup {ops'[Len(ops')].v.s}
            /\ \A k \in DOMAIN dct : k # ops'[Len(ops')].v.s => dct'[k] = dct[k]]_vars
    /\ Blank(<<>>).last_word = NoWord
    /\ immediate(Blank(<<>>)).err = AttributeError
    /\ comma(push(Blank(<<>>), IntV(1))).err = AttributeError

\* foo was defined twice: the dictionary holds the second word, the first
\* still exists
C15_Witness ==
    /\ Len(ops) = 2
    /\ ops[1] = [op |-> "define", v |-> StrV("foo")]
    /\ ops[2] = [op |-> "define", v |-> StrV("foo")]
    /\ dct["foo"] = W(last_word)
    /\ \E id \in DOMAIN words : id # last_word /\ words[id].name = StrV("foo")

-----------------------------------------------------------------------------
(* C16 *)

\* The turn the loop is about to take calls a Composite / runs exit
CallStep ==
    status = "running" /\ HasCell /\ IsWord(Dispatched)
        /\ ~is_instruction(Machine, IdOf(Dispatched))
ExitStep == Dispatches("exit")

\* The word frame k of the return stack was saved for: the word of the frame
\* above it, or of the cursor for the topmost frame
Callee(k) == IF k < Len(rstack) THEN CursorOf(rstack[k + 1]).word ELSE pc.word

\* Frame k points right behind a cell that calls the word it was saved for
\* (the word itself, or the exec_ that was given it)
BehindItsCall(k) ==
    LET fr == CursorOf(rstack[k])
    IN  /\ fr.word \in DOMAIN words
        /\ fr.i >= 1 /\ fr.i <= Len(words[fr.word].code)
        /\ words[fr.word].code[fr.i] \in {W(Callee(k)), W("exec_")}

\* C16: a call of a Composite pushes exactly one frame, the cursor behind the
\* call; an exit on a non-empty return stack pops exactly one frame, which
\* becomes the cursor; no other turn changes the return stack.  So the frames
\* are the calls in progress, innermost last: the bottom frame belongs to the
\* top-level thread init, each frame lies right behind the call of the word
\* the next frame (or the cursor) is in, and the depth of the return stack is
\* the nesting depth of the calls.
C16_DepthIsNesting ==
    /\ [](status # "idle" =>
            /\ (IF rstack = <<>> THEN pc.word ELSE CursorOf(rstack[1]).word) = "init"
            /\ \A k \in 1..Len(rstack) : BehindItsCall(k))
    /\ [][/\ CallStep =>
                /\ rstack' = Append(rstack, Frame([word |-> pc.word, i |-> pc.i + 1]))
                /\ pc' = PC(IdOf(Dispatched))
          /\ (ExitStep /\ rstack # <<>>) =>
                /\ rstack' = Front(rstack)
                /\ pc' = CursorOf(Last(rstack))
          /\ ~(CallStep \/ ExitStep) => rstack' = rstack]_vars

\* double, called by interpret, called by init: two frames, the cursor inside
\* the body of double
C16_Witness ==
    /\ status = "running"
    /\ Len(rstack) = 2
    /\ pc.word \in DOMAIN words
    /\ words[pc.word].name = StrV("double")
    /\ pc.i = 1
    /\ CursorOf(rstack[2]).word = "interpret"

-----------------------------------------------------------------------------
(* JumpSpec: the outer interpreter reads `n : foo branch , ; foo`, which
   defines foo with the body [branch, n, exit] and runs it *)

MaxOffset == 3
JumpOffsets == 0..MaxOffset
JumpScript(n) == <<ToString(n), ":", "foo", "branch", ",", ";", "foo">>

JumpInit ==
    \E n \in JumpOffsets :
        /\ Constructed(Forth(JumpScript(n)))
        /\ nfed = 0
        /\ done = <<>>
        /\ snap = NoSnap
        /\ ops = <<>>
        /\ ret = None

JumpNext ==
    \/ Run
    \/ Word_ \/ Dup \/ Or \/ Branch \/ ZBranch \/ Exit
    \/ Lit \/ Comma \/ LBrac \/ RBrac \/ ForthInterpret \/ IsImmediate
    \/ WordFromName \/ Create
    \/ Call \/ Fault

JumpSpec == JumpInit /\ [][JumpNext]_vars

\* C17: in every state of a run the cursor is on a cell of its word or right
\* behind the last one: 0 <= index <= len(body).
C17_IndexInBounds ==
    status # "idle" =>
        /\ pc.word \in DOMAIN words
        /\ 0 <= pc.i
        /\ pc.i <= Len(words[pc.word].code)

\* What the code does: branch adds the offset cell to the index unchecked, so
\* the index is in bounds as long as no branch of foo has run, and a fetch at
\* or behind the end of the body reads no cell and raises IndexError
C17_FetchPastEndFails ==
    /\ [](status # "idle" /\ words[pc.word].name # StrV("foo") =>
            0 <= pc.i /\ pc.i <= Len(words[pc.word].code))
    /\ [][(status = "running" /\ pc.i >= Len(words[pc.word].code)) =>
            /\ status' = "error" /\ err' = IndexError
            /\ stack' = stack /\ rstack' = rstack /\ pc' = pc]_vars

-----------------------------------------------------------------------------
(* WordSpec: the code of `word` on a stream of characters *)

MaxChars == 4
MaxReads == 3

spaces == {" ", "\t", "\n", "\f"}
Letters == {"c", "d"}

\* fin.read(1): the next character, or '' at the end of the stream
Read1(s) ==
    IF s = <<>> THEN [c |-> "", rest |-> <<>>] ELSE [c |-> Head(s), rest |-> Tail(s)]

\* The first loop of word: reads until a character that is no separator, or the end
RECURSIVE SkipLoop(_)
SkipLoop(s) ==
    LET r == Read1(s)
    IN  IF r.c = "" \/ r.c \notin spaces THEN r ELSE SkipLoop(r.rest)

\* Mutant of TakeLoop: the word ends with the first character read
TakeLoop_stops_at_once(w, s) ==
    LET r == Read1(s)
    IN  [w |-> w, rest |-> r.rest]

\* The second loop of word: reads until a separator or the end, w = w + c
RECURSIVE TakeLoop(_, _)
TakeLoop(w, s) ==
    LET r == Read1(s)
    IN  IF r.c = "" \/ r.c \in spaces THEN [w |-> w, rest |-> r.rest]
        ELSE TakeLoop(w \o r.c, r.rest)

\* word.code(forth) with forth.fin a stream of characters
word_code(f) ==
    LET first == SkipLoop(f.fin)
        got == TakeLoop(first.c, first.rest)
    IN  push([f EXCEPT !.fin = got.rest], StrV(got.w))

\* The characters fin held at the start
Input == [k \in 1..Len(ops) |-> ops[k].v.s]

\* Forth(run=False, fin=io.StringIO(chars))
WordInit ==
    /\ \E n \in 0..MaxChars :
         \E chars \in [1..n -> spaces \cup Letters] :
            /\ Constructed(Forth(chars))
            /\ ops = [k \in 1..n |-> [op |-> "char", v |-> StrV(chars[k])]]
    /\ nfed = 0
    /\ done = <<>>
    /\ snap = NoSnap
    /\ ret = None

\* forthvm.word.code(forth)
ReadWord ==
    /\ Len(stack) < MaxReads
    /\ LET f == word_code(Caught)
       IN  stack' = f.stack /\ fin' = f.fin
    /\ UNCHANGED <<rstack, dct, words, last_word, pc, eof, status, err, raiser,
                   nfed, done, snap, ops, ret>>

WordNext == ReadWord

WordSpec == WordInit /\ [][WordNext]_vars


\* The characters of s as one string
RECURSIVE Join(_)
Join(s) == IF s = <<>> THEN "" ELSE Head(s) \o Join(Tail(s))

\* The length of the run of non-separators s starts with
RECURSIVE RunLen(_)
RunLen(s) == IF s = <<>> \/ Head(s) \in spaces THEN 0 ELSE 1 + RunLen(Tail(s))

\* The maximal runs of non-separators of s, in order
RECURSIVE Runs(_)
Runs(s) ==
    IF s = <<>> THEN <<>>
    ELSE IF Head(s) \in spaces THEN Runs(Tail(s))
    ELSE <<Join(SubSeq(s, 1, RunLen(s)))>> \o Runs(SubSeq(s, RunLen(s) + 1, Len(s)))

\* What the calls so far have consumed of the input
Consumed == SubSeq(Input, 1, Len(Input) - Len(fin))

\* C18: the k-th call of word returns the k-th maximal run of non-separator
\* characters of the input, and the empty string once there is none left;
\* what the calls have consumed is a prefix of the input that ends with the
\* one separator behind the last word returned, or is the whole input.
C18_WordReadsTokens ==
    /\ \A k \in 1..Len(stack) :
          stack[k] = StrV(IF k <= Len(Runs(Input)) THEN Runs(Input)[k] ELSE "")
    /\ fin = SubSeq(Input, Len(Input) - Len(fin) + 1, Len(Input))
    /\ stack = <<>> => Consumed = <<>>
    /\ (stack # <<>> /\ fin # <<>>) =>
          /\ Len(Consumed) >= 2
          /\ Last(Consumed) \in spaces
          /\ Consumed[Len(Consumed) - 1] \notin spaces
          /\ Len(Runs(Consumed)) = Len(stack)

\* ' c\td': the first call skipped the blank and returned c, consuming the
\* tab; the second returned d; the third the empty string
C18_Witness ==
    /\ Input = <<" ", "c", "\t", "d">>
    /\ stack = <<StrV("c"), StrV("d"), StrV("")>>
    /\ fin = <<>>

-----------------------------------------------------------------------------
(* InnerSpec: inner() on the thread of a Secondary built from Primaries that
   append their name to a list, and from Secondaries of such words.
   rstack holds the iterators of the calls of inner in progress, innermost
   last; stack is the list the Primaries append to; ops is the history of
   calls and returns. *)

MaxThread == 3

\* The words a thread can hold
InnerWords ==
    [n \in {"one", "two", "three", "S", "T"} |->
        CASE n = "S" -> Secondary("S", <<W("one"), W("two")>>, FALSE)
          [] n = "T" -> Secondary("T", <<W("S"), W("three")>>, FALSE)
          [] OTHER -> Primary(n, FALSE)]

\* iter(word): an iterator over the thread of a Secondary, nothing yielded yet
Iter(id) == [t |-> "iter", n |-> 0, s |-> id]

\* Primary.__call__: self.code(), which appends the name to the list
Primary_call(f, id) == [f EXCEPT !.stack = Append(@, f.words[id].name)]

\* Mutant of Secondary_call: the word returns without running its thread
Secondary_call_runs_nothing(f, id) == f

\* Secondary.__call__: inner(iter(self)), a new iterator over wthread
Secondary_call(f, id) == [f EXCEPT !.rstack = Append(@, Iter(id))]

\* The iterator of the innermost call of inner, and its thread
InnerIter(f) == [word |-> Last(f.rstack).s, i |-> Last(f.rstack).n]
InnerThread(f) == f.words[InnerIter(f).word].code

\* One turn of `for w in fin: w()`: the loop ends and inner returns, or the
\* iterator yields the next word and it is called
inner(f) ==
    IF InnerIter(f).i >= Len(InnerThread(f)) THEN [f EXCEPT !.rstack = Front(@)]
    ELSE LET w == InnerThread(f)[InnerIter(f).i + 1]
             f1 == [f EXCEPT !.rstack[Len(f.rstack)].n = @ + 1]
         IN  IF f.words[IdOf(w)].kind = "primary"
             THEN Primary_call(f1, IdOf(w))
             ELSE Secondary_call(f1, IdOf(w))

\* main = Secondary('main', thread); inner(iter(main))
InnerInit ==
    /\ \E n \in 0..MaxThread :
         \E thread \in [1..n -> {W(id) : id \in DOMAIN InnerWords}] :
            Constructed(
                [Blank(<<>>) EXCEPT !.words = Put(InnerWords, "main", Secondary("main", thread, FALSE)),
                                    !.rstack = <<Iter("main")>>,
                                    !.status = "running"])
    /\ nfed = 0
    /\ done = <<>>
    /\ snap = NoSnap
    /\ ops = <<>>
    /\ ret = None

InnerTurn(event, id) ==
    /\ Commit(inner(Machine))
    /\ ops' = Append(ops, [op |-> event, v |-> W(id)])
    /\ UNCHANGED <<nfed, done, snap, ret>>

\* The next word of the innermost thread, if the iterator has one
InnerHasNext == rstack # <<>> /\ InnerIter(Machine).i < Len(InnerThread(Machine))
InnerNextWord == IdOf(InnerThread(Machine)[InnerIter(Machine).i + 1])

CallPrimary ==
    /\ InnerHasNext /\ words[InnerNextWord].kind = "primary"
    /\ InnerTurn("call", InnerNextWord)

CallSecondary ==
    /\ InnerHasNext /\ words[InnerNextWord].kind = "secondary"
    /\ InnerTurn("call", InnerNextWord)

Return ==
    /\ rstack # <<>> /\ ~InnerHasNext
    /\ InnerTurn("return", InnerIter(Machine).word)

InnerNext == CallPrimary \/ CallSecondary \/ Return

InnerSpec == InnerInit /\ [][InnerNext]_vars

\* The calls and returns of running a thread: each word called once, in thread
\* order, a Secondary returning after the calls of its own thread
RECURSIVE Events(_, _)
Events(tbl, thread) ==
    IF thread = <<>> THEN <<>>
    ELSE LET w == Head(thread)
         IN  <<[op |-> "call", v |-> w]>>
             \o (IF tbl[IdOf(w)].kind = "primary" THEN <<>>
                 ELSE Events(tbl, tbl[IdOf(w)].code) \o <<[op |-> "return", v |-> w]>>)
             \o Events(tbl, Tail(thread))

\* The names the Primaries called in h appended
RECURSIVE Appended(_, _)
Appended(tbl, h) ==
    IF h = <<>> THEN <<>>
    ELSE (IF Head(h).op = "call" /\ tbl[IdOf(Head(h).v)].kind = "primary"
          THEN <<tbl[IdOf(Head(h).v)].name>> ELSE <<>>)
         \o Appended(tbl, Tail(h))

MainEvents == Events(words, words["main"].code) \o <<[op |-> "return", v |-> W("main")]>>

\* C19: the calls inner makes are, at every moment, the beginning of the
\* depth-first walk of the thread: every word once, in thread order, the whole
\* thread of a Secondary between its call and the next word; what the
\* Primaries have done is what these calls do; and when the outermost call
\* has returned the walk is complete.
C19_InnerInOrder ==
    /\ IsPrefix(ops, MainEvents)
    /\ stack = Appended(words, ops)
    /\ rstack = <<>> <=> ops = MainEvents

\* main = [T, one]: T ran S (one, two) and three before one was called
C19_Witness ==
    /\ words["main"].code = <<W("T"), W("one")>>
    /\ rstack = <<>>
    /\ stack = <<StrV("one"), StrV("two"), StrV("three"), StrV("one")>>


-----------------------------------------------------------------------------
\* hexaforth_0_1: a Forth of one-character words over a stack of bytes.
\* A byte is its integer value; bytes and bytearray are sequences of bytes.

MaxInput == 4
MaxInitial == 2

\* ord(b".")
Dot == 46

\* lambda s, _: s.pop(): the top byte leaves the stack and is returned.
\* bytearray.pop raises IndexError on an empty bytearray (see StackIsEmpty).
dot_pops_the_bottom(s, c) == [stck |-> Tail(s), out |-> <<Head(s)>>]
dot(s, c) == [stck |-> Front(s), out |-> <<Last(s)>>]

\* lambda s, c: s.append(c): returns None, written as no byte at all
letter(s, c) == [stck |-> Append(s, c), out |-> <<>>]

\* dict_prototype: ord of the character -> its implementation
dict_prototype == [b \in {Dot, 97, 98, 99} |-> IF b = Dot THEN "dot" ELSE "letter"]

\* dctn[b](stck, b)
Implementation(dctn, b, s) == IF dctn[b] = "dot" THEN dot(s, b) ELSE letter(s, b)

Snapshot(s, last_input, cursor_position) ==
    [stack |-> s, last_input |-> last_input, cursor_position |-> cursor_position]

NoSnapshot == Snapshot(<<>>, <<>>, -1)

\* The bytes fed to eval: the four of the dictionary and one that is not a key
InputBytes == DOMAIN dict_prototype \cup {100}

\* What the stack may hold before eval: any bytes, 0 and a letter here
InitialBytes == {0, 99}

BytesUpTo(S, n) == UNION {[1..k -> S] : k \in 0..n}

\* eval(dict_prototype, stck, astr), at the top of its loop:
\*   stack = stck, fin = astr, nfed = the index i of the byte enumerated next,
\*   done = output, snap = stack_on_eval_start, ret = the snap of the exception raised
EvalInit ==
    /\ \E s \in BytesUpTo(InitialBytes, MaxInitial) :
         \E astr \in BytesUpTo(InputBytes, MaxInput) :
            /\ stack = s
            /\ snap = s
            /\ fin = astr
    /\ nfed = 0
    /\ done = <<>>
    /\ ret = NoSnapshot
    /\ status = "running"
    /\ err = ""
    /\ raiser = ""
    /\ rstack = <<>>
    /\ dct = <<>>
    /\ words = <<>>
    /\ last_word = NoWord
    /\ pc = NoPC
    /\ eof = FALSE
    /\ ops = <<>>

EvalByte == fin[nfed + 1]
EvalHasByte == status = "running" /\ nfed < Len(fin)
EvalKnown == EvalHasByte /\ EvalByte \in DOMAIN dict_prototype

\* s.pop() on an empty bytearray: IndexError
StackIsEmpty == dict_prototype[EvalByte] = "dot" /\ stack = <<>>

\* One turn of the loop that ends normally: the implementation has run
EvalTurn ==
    /\ stack' = Implementation(dict_prototype, EvalByte, stack).stck
    /\ done' = done \o Implementation(dict_prototype, EvalByte, stack).out
    /\ nfed' = nfed + 1
    /\ UNCHANGED <<rstack, dct, words, last_word, pc, fin, eof, status, err,
                   raiser, snap, ops, ret>>

\* One turn of the loop that raises: the stack stays as the turns before left it
EvalRaise_snapshots_the_stack_as_it_is(exc) ==
    /\ status' = "error"
    /\ err' = exc
    /\ ret' = Snapshot(stack, fin, nfed)
    /\ UNCHANGED <<stack, rstack, dct, words, last_word, pc, fin, eof,
                   raiser, nfed, done, snap, ops>>

\* eval as it would be if an error put the stack back as eval was given it
EvalRaise_rolls_back(exc) ==
    /\ status' = "error"
    /\ err' = exc
    /\ ret' = Snapshot(snap, fin, nfed)
    /\ stack' = snap
    /\ UNCHANGED <<rstack, dct, words, last_word, pc, fin, eof,
                   raiser, nfed, done, snap, ops>>

EvalRaise(exc) ==
    /\ status' = "error"
    /\ err' = exc
    /\ ret' = Snapshot(snap, fin, nfed)
    /\ UNCHANGED <<stack, rstack, dct, words, last_word, pc, fin, eof,
                   raiser, nfed, done, snap, ops>>

EvalLetter ==
    /\ EvalKnown /\ dict_prototype[EvalByte] = "letter"
    /\ EvalTurn

EvalDot ==
    /\ EvalKnown /\ dict_prototype[EvalByte] = "dot" /\ ~StackIsEmpty
    /\ EvalTurn

EvalStackUnderflow ==
    /\ EvalKnown /\ StackIsEmpty
    /\ EvalRaise("StackUnderflow")

EvalUnknownToken ==
    /\ EvalHasByte /\ EvalByte \notin DOMAIN dict_prototype
    /\ EvalRaise("UnknownToken")

\* return bytes(output)
EvalReturn ==
    /\ status = "running" /\ nfed = Len(fin)
    /\ status' = "halted"
    /\ UNCHANGED <<stack, rstack, dct, words, last_word, pc, fin, eof, err,
                   raiser, nfed, done, snap, ops, ret>>

EvalNext == EvalLetter \/ EvalDot \/ EvalStackUnderflow \/ EvalUnknownToken \/ EvalReturn

EvalSpec == EvalInit /\ [][EvalNext]_vars

\* What the claim says of an input p over {a, b, c, .} and an initial stack:
\* the letters pushed and not popped yet, in push order
RECURSIVE Unpopped(_)
Unpopped(p) ==
    IF p = <<>> THEN <<>>
    ELSE IF Last(p) # Dot THEN Append(Unpopped(Front(p)), Last(p))
    ELSE IF Unpopped(Front(p)) = <<>> THEN <<>>
    ELSE Front(Unpopped(Front(p)))

\* the number of `.` of p that found no letter of p left to pop
RECURSIVE BelowLetters(_)
BelowLetters(p) ==
    IF p = <<>> THEN 0
    ELSE BelowLetters(Front(p))
         + (IF Last(p) = Dot /\ Unpopped(Front(p)) = <<>> THEN 1 ELSE 0)

\* what is left of the initial stack, when no `.` met an empty stack
Kept(initial, p) == SubSeq(initial, 1, Len(initial) - BelowLetters(p))

\* the bytes popped, in pop order: each `.` takes the byte on top when it is met
RECURSIVE Popped(_, _)
Popped(initial, p) ==
    IF p = <<>> THEN <<>>
    ELSE IF Last(p) # Dot THEN Popped(initial, Front(p))
    ELSE Append(Popped(initial, Front(p)),
                Last(Kept(initial, Front(p)) \o Unpopped(Front(p))))

OverTheAlphabet == \A k \in 1..Len(fin) : fin[k] \in DOMAIN dict_prototype
NoDotMeetsAnEmptyStack == BelowLetters(fin) <= Len(snap)
Returned == status = "halted"

\* C20 (amended): for every input over {a, b, c, .} in which no `.` meets an
\* empty stack, eval returns, the returned output is the popped bytes in pop
\* order, and the final stack is what the pops left of the initial stack
\* followed by the pushed, not yet popped letters in push order; at every turn
\* of the loop the same holds of the bytes evaluated so far.
C20_EvalPushesAndPops ==
    /\ (OverTheAlphabet /\ NoDotMeetsAnEmptyStack) => status # "error"
    /\ (OverTheAlphabet /\ status # "error") =>
          /\ done = Popped(snap, SubSeq(fin, 1, nfed))
          /\ stack = Kept(snap, SubSeq(fin, 1, nfed)) \o Unpopped(SubSeq(fin, 1, nfed))
    /\ Returned => nfed = Len(fin)

\* eval has returned after a `.` popped a byte of the initial stack, a letter
\* was pushed and popped again, and a letter is left on the stack
C20_Witness ==
    /\ Returned /\ OverTheAlphabet
    /\ BelowLetters(fin) > 0
    /\ Unpopped(fin) # <<>>
    /\ Len(done) > BelowLetters(fin)

\* C20 as stated: the final stack is the whole initial stack plus the pushed,
\* not yet popped letters
C20_AsStated ==
    (Returned /\ OverTheAlphabet /\ NoDotMeetsAnEmptyStack) =>
        /\ done = Popped(snap, fin)
        /\ stack = snap \o Unpopped(fin)


-----------------------------------------------------------------------------
\* Replaying a failure of eval from the snapshot of its exception (test_eval):
\*   retry_stack = bytearray(first_error.value.snap.stack)
\*   retry_input = first_error.value.snap.last_input
\*   eval(dctn, retry_stack, retry_input)
\* ops keeps the snapshot of the first error.
Replay ==
    /\ status = "error" /\ err = "StackUnderflow" /\ ops = <<>>
    /\ ops' = <<ret>>
    /\ stack' = ret.stack
    /\ snap' = ret.stack
    /\ fin' = ret.last_input
    /\ nfed' = 0
    /\ done' = <<>>
    /\ ret' = NoSnapshot
    /\ status' = "running"
    /\ err' = ""
    /\ UNCHANGED <<rstack, dct, words, last_word, pc, eof, raiser>>

ReplayNext == EvalNext \/ Replay

ReplaySpec == EvalInit /\ [][ReplayNext]_vars

StackUnderflowRaised == status = "error" /\ err = "StackUnderflow"
Replayed == ops # <<>>

\* The `.` at index k (from 0) of the input meets an empty stack
MeetsAnEmptyStack(k) ==
    /\ k < Len(fin) /\ fin[k + 1] = Dot
    /\ \A j \in 1..k : fin[j] \in DOMAIN dict_prototype
    /\ BelowLetters(SubSeq(fin, 1, k + 1)) > Len(snap)

\* C21: when eval raises StackUnderflow, the snapshot of the error holds the
\* stack as it was at the start of that eval, the whole input, and the index of
\* the first `.` that met an empty stack; eval run again on a stack made from
\* snapshot.stack with snapshot.last_input does not return: it raises a
\* StackUnderflow whose snapshot equals the first.
C21_Replayable ==
    /\ [](StackUnderflowRaised =>
            /\ ret.last_input = fin
            /\ MeetsAnEmptyStack(ret.cursor_position)
            /\ \A k \in 0..(ret.cursor_position - 1) : ~MeetsAnEmptyStack(k)
            /\ ret.stack = snap)
    /\ [](status = "running" /\ nfed = 0 => snap = stack)
    /\ [](Replayed => status # "halted")
    /\ [](Replayed /\ status = "error" => err = "StackUnderflow" /\ ret = ops[1])
    /\ [][status = "running" /\ ~Replay => snap' = snap /\ fin' = fin]_vars
    /\ [][Replay => stack' = ops'[1].stack /\ fin' = ops'[1].last_input]_vars

\* The replay of a failure met after the stack was changed (the bytes of the
\* initial stack were popped, two bytes of the input evaluated) has failed in
\* its turn
C21_Witness ==
    /\ Replayed /\ StackUnderflowRaised
    /\ ret.cursor_position > 1
    /\ ret.stack # <<>>
    /\ ret.stack # stack


-----------------------------------------------------------------------------
\* hexaforth_0_1.Machine: the stack is kept between the calls of eval.
\*   stack = self.stack, dct = astr (the argument of __call__),
\*   ops = astr.split(b"\n"), rstack = output (the list of the outputs of the
\*   segments evaluated so far); fin, nfed, done, snap, ret as in eval.

\* ord(b"\n")
Newline == 10

\* astr.split(b"\n")
RECURSIVE Split(_)
Split(astr) ==
    IF astr = <<>> THEN << <<>> >>
    ELSE IF Head(astr) = Newline THEN << <<>> >> \o Split(Tail(astr))
    ELSE << <<Head(astr)>> \o Head(Split(Tail(astr))) >> \o Tail(Split(Tail(astr)))

\* b"\n".join(output)
RECURSIVE JoinLines(_)
JoinLines(output) ==
    IF output = <<>> THEN <<>>
    ELSE IF Len(output) = 1 THEN output[1]
    ELSE output[1] \o <<Newline>> \o JoinLines(Tail(output))

\* The bytes a caller passes: a letter, `.`, the newline and a byte that is no key
CallBytes == {97, Dot, Newline, 100}

\* machine = Machine(initial_stack); machine(astr), up to the for loop
MachineCallInit ==
    /\ \E s \in BytesUpTo(InitialBytes, MaxInitial) :
         \E astr \in BytesUpTo(CallBytes, MaxInput) :
            /\ stack = s
            /\ dct = astr
            /\ ops = Split(astr)
    /\ rstack = <<>>
    /\ fin = <<>>
    /\ nfed = 0
    /\ done = <<>>
    /\ snap = <<>>
    /\ ret = NoSnapshot
    /\ status = "idle"
    /\ err = ""
    /\ raiser = ""
    /\ words = <<>>
    /\ last_word = NoWord
    /\ pc = NoPC
    /\ eof = FALSE

\* for seq in astr.split(b"\n"): eval(self.dict, self.stack, seq), up to the loop of eval
MachineCallEval_of_the_whole_input ==
    /\ status = "idle" /\ Len(rstack) < Len(ops)
    /\ fin' = dct
    /\ nfed' = 0
    /\ done' = <<>>
    /\ snap' = stack
    /\ status' = "running"
    /\ UNCHANGED <<stack, rstack, dct, words, last_word, pc, eof, err, raiser, ops, ret>>

MachineCallEval ==
    /\ status = "idle" /\ Len(rstack) < Len(ops)
    /\ fin' = ops[Len(rstack) + 1]
    /\ nfed' = 0
    /\ done' = <<>>
    /\ snap' = stack
    /\ status' = "running"
    /\ UNCHANGED <<stack, rstack, dct, words, last_word, pc, eof, err, raiser, ops, ret>>

\* output.append(eval(...)): eval has returned
MachineCallAppend ==
    /\ status = "halted"
    /\ rstack' = Append(rstack, done)
    /\ status' = "idle"
    /\ UNCHANGED <<stack, dct, words, last_word, pc, fin, eof, err, raiser,
                   nfed, done, snap, ops, ret>>

\* return b"\n".join(output)
MachineCallReturn ==
    /\ status = "idle" /\ Len(rstack) = Len(ops)
    /\ done' = JoinLines(rstack)
    /\ status' = "returned"
    /\ UNCHANGED <<stack, rstack, dct, words, last_word, pc, fin, eof, err, raiser,
                   nfed, snap, ops, ret>>

MachineCallNext ==
    \/ MachineCallEval \/ MachineCallAppend \/ MachineCallReturn
    \/ EvalLetter \/ EvalDot \/ EvalStackUnderflow \/ EvalUnknownToken \/ EvalReturn

MachineCallSpec == MachineCallInit /\ [][MachineCallNext]_vars

\* The positions of the newlines of astr, and the k-th of them (0 before the
\* first segment, one past the end after the last)
Newlines(astr) == {p \in 1..Len(astr) : astr[p] = Newline}
EndOfSegment(astr, k) ==
    IF k = 0 THEN 0
    ELSE IF k > Cardinality(Newlines(astr)) THEN Len(astr) + 1
    ELSE CHOOSE p \in Newlines(astr) : Cardinality({q \in Newlines(astr) : q < p}) = k - 1
\* the k-th newline-separated segment of astr
Segment(astr, k) == SubSeq(astr, EndOfSegment(astr, k - 1) + 1, EndOfSegment(astr, k) - 1)

EntersEval == status = "idle" /\ status' = "running"

\* C22: Machine.__call__ evaluates the newline-separated segments of its input
\* in order on the one stack of the machine: eval number k gets the k-th
\* segment and the stack as the segment before left it, the outputs are kept
\* in that order, and when a segment underflows nothing is undone and the
\* snapshot is relative to that segment: its stack is the stack at the start
\* of the segment, its input the segment only, its cursor the index in it of
\* the first `.` that met an empty stack.
C22_SegmentsInOrder ==
    /\ [][EntersEval =>
            /\ fin' = Segment(dct, Len(rstack) + 1)
            /\ stack' = stack /\ snap' = stack]_vars
    /\ [][status = "halted" /\ status' = "idle" =>
            /\ rstack' = Append(rstack, done) /\ stack' = stack]_vars
    /\ [][status' = "error" => stack' = stack /\ rstack' = rstack]_vars
    /\ [](status = "running" /\ OverTheAlphabet =>
            stack = Kept(snap, SubSeq(fin, 1, nfed)) \o Unpopped(SubSeq(fin, 1, nfed)))
    /\ [](StackUnderflowRaised =>
            /\ ret = Snapshot(snap, Segment(dct, Len(rstack) + 1), nfed)
            /\ MeetsAnEmptyStack(ret.cursor_position)
            /\ \A k \in 0..(ret.cursor_position - 1) : ~MeetsAnEmptyStack(k))
    /\ [](status = "returned" =>
            /\ Len(rstack) = Cardinality(Newlines(dct)) + 1
            /\ done = JoinLines(rstack))

\* A second or later segment has underflowed at its second byte or later, on a
\* stack that the segments before it left non-empty
C22_Witness ==
    /\ StackUnderflowRaised
    /\ Len(rstack) >= 1
    /\ ret.stack # <<>>
    /\ ret.cursor_position >= 1
    /\ ret.last_input # dct


-----------------------------------------------------------------------------
\* Copies of a Machine. The bytearrays are objects of a heap:
\*   words = the heap, reference -> bytes; stack = machine.stack (a reference);
\*   rstack = mc.stack of the copy mc held by the caller (0: no copy yet);
\*   ops = the call made last.

MaxDepth == 2
MaxText == 1

NoCopy == 0

\* A reference no object of the heap has
NewRef(h) == CHOOSE r \in 1..(Cardinality(DOMAIN h) + 1) : r \notin DOMAIN h

\* bytearray(initial_stack): a new object with these bytes
bytearray(h, s) == [heap |-> h @@ (NewRef(h) :> s), ref |-> NewRef(h)]

\* copy.deepcopy(self.stack): a new bytearray with the bytes of the stack
deepcopy(h, ref) == bytearray(h, h[ref])

\* Machine(initial_stack): self.stack = bytearray(initial_stack)
Machine__init__(h, ref) == bytearray(h, h[ref])

\* Machine.copy -> __copy__ -> __deepcopy__: Machine(copy.deepcopy(self.stack))
copy_keeps_the_bytearray(h, ref) == [heap |-> h, ref |-> ref]
copy(h, ref) == Machine__init__(deepcopy(h, ref).heap, deepcopy(h, ref).ref)

\* What machine(astr) leaves on a stack s: the segments are evaluated byte by
\* byte, and StackUnderflow or UnknownToken ends the call where it is raised
RECURSIVE CallEffect(_, _)
CallEffect(s, astr) ==
    IF astr = <<>> THEN s
    ELSE IF Head(astr) = Newline THEN CallEffect(s, Tail(astr))
    ELSE IF Head(astr) \notin DOMAIN dict_prototype THEN s
    ELSE IF dict_prototype[Head(astr)] = "dot" /\ s = <<>> THEN s
    ELSE CallEffect(Implementation(dict_prototype, Head(astr), s).stck, Tail(astr))

\* machine(astr) on the machine whose stack is the object ref
Machine__call__(h, ref, astr) == [h EXCEPT ![ref] = CallEffect(h[ref], astr)]

\* Machine.tokens: list(self.dict.keys())
tokens == <<Dot, 97, 98, 99>>

\* CustomCompleter.get_completions: for next_ch in machine.tokens:
\*   m = machine.copy(); m(text_before_cursor + bytes([next_ch]))
RECURSIVE get_completions(_, _, _, _)
get_completions(h, ref, text, toks) ==
    IF toks = <<>> THEN h
    ELSE get_completions(
            Machine__call__(copy(h, ref).heap, copy(h, ref).ref, Append(text, Head(toks))),
            ref, text, Tail(toks))

\* CustomValidator.validate: m = machine.copy(); m(whole_text)
validate(h, ref, text) == Machine__call__(copy(h, ref).heap, copy(h, ref).ref, text)

\* The objects still referred to; the others are garbage
Live(refs) == refs \ {NoCopy}
Keep(h, refs) == [r \in Live(refs) \cap DOMAIN h |-> h[r]]

Texts == BytesUpTo({Dot, 97, 98, Newline}, MaxText)

Called(op, text) == ops' = <<[op |-> op, v |-> text]>>

CopyInit ==
    /\ \E s \in BytesUpTo({97, 98}, 1) : words = (1 :> s)
    /\ stack = 1
    /\ rstack = NoCopy
    /\ ops = <<>>
    /\ dct = <<>>
    /\ fin = <<>>
    /\ nfed = 0
    /\ done = <<>>
    /\ snap = <<>>
    /\ ret = NoSnapshot
    /\ status = "idle"
    /\ err = ""
    /\ raiser = ""
    /\ last_word = NoWord
    /\ pc = NoPC
    /\ eof = FALSE

CopyFrame == UNCHANGED <<dct, last_word, pc, fin, eof, status, err, raiser, nfed, done, snap, ret>>

\* mc = machine.copy()
MachineCopy ==
    /\ rstack' = copy(words, stack).ref
    /\ words' = Keep(copy(words, stack).heap, {stack, rstack'})
    /\ Called("copy", <<>>)
    /\ UNCHANGED stack /\ CopyFrame

\* machine(text)
CallMachine ==
    \E text \in Texts :
        /\ Len(CallEffect(words[stack], text)) <= MaxDepth
        /\ words' = Machine__call__(words, stack, text)
        /\ Called("machine", text)
        /\ UNCHANGED <<stack, rstack>> /\ CopyFrame

\* mc(text)
CallCopy ==
    \E text \in Texts :
        /\ rstack # NoCopy
        /\ Len(CallEffect(words[rstack], text)) <= MaxDepth
        /\ words' = Machine__call__(words, rstack, text)
        /\ Called("mc", text)
        /\ UNCHANGED <<stack, rstack>> /\ CopyFrame

\* machine.validator.validate(Document(text))
Validate ==
    \E text \in Texts :
        /\ words' = Keep(validate(words, stack, text), {stack, rstack})
        /\ Called("validate", text)
        /\ UNCHANGED <<stack, rstack>> /\ CopyFrame

\* machine.completer.get_completions(Document(text), event)
Complete ==
    \E text \in Texts :
        /\ words' = Keep(get_completions(words, stack, text, tokens), {stack, rstack})
        /\ Called("complete", text)
        /\ UNCHANGED <<stack, rstack>> /\ CopyFrame

CopyNext == MachineCopy \/ CallMachine \/ CallCopy \/ Validate \/ Complete

CopySpec == CopyInit /\ [][CopyNext]_vars

LastCall == ops[1].op
HasCopy == rstack # NoCopy

\* C23: Machine.copy() returns a machine whose stack equals the original's at
\* copy time and is another object; an evaluation on the copy leaves the stack
\* of the original as it was and an evaluation on the original leaves the
\* stack of the copy as it was; the validator and the completer, which
\* evaluate on copies of their own, change neither.
C23_CopyIsIndependent ==
    /\ [][LastCall' = "copy" =>
            /\ rstack' # stack'
            /\ words'[rstack'] = words[stack]
            /\ words'[stack'] = words[stack]]_vars
    /\ [][LastCall' = "mc" => words'[stack'] = words[stack]]_vars
    /\ [][LastCall' = "machine" /\ HasCopy => words'[rstack'] = words[rstack]]_vars
    /\ [][LastCall' \in {"validate", "complete"} =>
            /\ words'[stack'] = words[stack]
            /\ HasCopy => words'[rstack'] = words[rstack]]_vars
    /\ [][stack' = stack /\ (HasCopy /\ LastCall' # "copy" => rstack' = rstack)]_vars

\* The validator has just evaluated a `.` on a copy of a machine whose stack
\* holds a byte, next to a copy whose stack has come to differ from the stack
\* of the original
C23_Witness ==
    /\ ops # <<>> /\ LastCall = "validate"
    /\ ops[1].v = <<Dot>>
    /\ HasCopy
    /\ words[rstack] # words[stack]
    /\ words[stack] # <<>>


-----------------------------------------------------------------------------
\* yeast_0_0_2: the backtick drops the byte kept last.
\*   stack = result, fin = s (the line), nfed = the number of bytes taken from s

MaxLine == 5

\* the backtick, ord of it
Backtick == 96

\* live_char_eval(ch, result): what it leaves in result; on a backtick with an
\* empty result, result.pop() raises IndexError (see LiveIndexError)
live_char_eval_drops_the_oldest(ch, result) ==
    IF ch = Backtick THEN Tail(result)
    ELSE Append(IF result # <<>> /\ Last(result) = Backtick THEN Front(result) ELSE result, ch)

live_char_eval(ch, result) ==
    IF ch = Backtick THEN Front(result)
    ELSE Append(IF result # <<>> /\ Last(result) = Backtick THEN Front(result) ELSE result, ch)

LineBytes == {97, 98, Backtick}

\* live_line_eval(s), at the top of its loop
LiveLineInit ==
    /\ fin \in BytesUpTo(LineBytes, MaxLine)
    /\ stack = <<>>
    /\ nfed = 0
    /\ status = "running"
    /\ err = ""
    /\ raiser = ""
    /\ done = <<>>
    /\ snap = <<>>
    /\ ret = NoSnapshot
    /\ rstack = <<>>
    /\ dct = <<>>
    /\ words = <<>>
    /\ last_word = NoWord
    /\ pc = NoPC
    /\ eof = FALSE
    /\ ops = <<>>

LiveHasByte == status = "running" /\ nfed < Len(fin)
LiveByte == fin[nfed + 1]

\* for b in s: live_char_eval(b, result)
LiveChar ==
    /\ LiveHasByte /\ ~(LiveByte = Backtick /\ stack = <<>>)
    /\ stack' = live_char_eval(LiveByte, stack)
    /\ nfed' = nfed + 1
    /\ UNCHANGED <<rstack, dct, words, last_word, pc, fin, eof, status, err,
                   raiser, done, snap, ops, ret>>

\* result.pop() on the empty bytearray
LiveIndexError ==
    /\ LiveHasByte /\ LiveByte = Backtick /\ stack = <<>>
    /\ status' = "error"
    /\ err' = IndexError
    /\ UNCHANGED <<stack, rstack, dct, words, last_word, pc, fin, eof,
                   raiser, nfed, done, snap, ops, ret>>

\* return result
LiveReturn ==
    /\ status = "running" /\ nfed = Len(fin)
    /\ status' = "halted"
    /\ ret' = Snapshot(stack, fin, nfed)
    /\ UNCHANGED <<stack, rstack, dct, words, last_word, pc, fin, eof, err,
                   raiser, nfed, done, snap, ops>>

LiveLineNext == LiveChar \/ LiveIndexError \/ LiveReturn

LiveLineSpec == LiveLineInit /\ [][LiveLineNext]_vars

\* What the line says without running it: the bytes of p that no backtick
\* removed, each backtick removing the byte kept last before it
RECURSIVE NotRemoved(_)
NotRemoved(p) ==
    IF p = <<>> THEN <<>>
    ELSE IF Last(p) = Backtick
         THEN (IF NotRemoved(Front(p)) = <<>> THEN <<>> ELSE Front(NotRemoved(Front(p))))
         ELSE Append(NotRemoved(Front(p)), Last(p))

Backticks(p) == Cardinality({k \in 1..Len(p) : p[k] = Backtick})

\* the backtick at position k of the line arrives while nothing is kept
ArrivesOnEmpty(k) ==
    /\ k \in 1..Len(fin) /\ fin[k] = Backtick
    /\ 2 * Backticks(SubSeq(fin, 1, k - 1)) = k - 1
    /\ \A j \in 1..(k - 1) : 2 * Backticks(SubSeq(fin, 1, j)) <= j

LiveTaken == SubSeq(fin, 1, nfed)

\* C24: live_line_eval takes the bytes of the line from left to right on a
\* result that starts empty: a backtick is not kept and removes the byte kept
\* last, any other byte is appended; a backtick that arrives while the result
\* is empty raises IndexError, at the first such backtick, and otherwise the
\* function returns the bytes no backtick removed, in input order.
C24_BacktickDropsPrevious ==
    /\ status # "error" =>
          /\ stack = NotRemoved(LiveTaken)
          /\ Len(stack) = nfed - 2 * Backticks(LiveTaken)
          /\ \A k \in 1..Len(stack) : stack[k] # Backtick
    /\ status = "error" => err = IndexError /\ ArrivesOnEmpty(nfed + 1)
    /\ status = "halted" =>
          /\ nfed = Len(fin)
          /\ ret.stack = stack
          /\ \A k \in 1..Len(fin) : ~ArrivesOnEmpty(k)

\* A line with two backticks, one after two letters, has been evaluated to the
\* end and a letter is left
C24_Witness ==
    /\ status = "halted"
    /\ Backticks(fin) >= 2
    /\ \E k \in 3..Len(fin) : fin[k] = Backtick /\ fin[k - 1] # Backtick /\ fin[k - 2] # Backtick
    /\ stack # <<>>


-----------------------------------------------------------------------------
\* yeast_0_1: the combinators i and k applied byte by byte.
\*   stack = pstack (the parameters, popped from the end), rstack = the rstack
\*   of apply (the result), dct = cstack (the pending continuations),
\*   fin = pstack as apply received it

MaxParams == 4

\* The continuations: I, K, and the closure pK that K(x) returns
I == [f |-> "I", x |-> 0]
K == [f |-> "K", x |-> 0]
pK(x) == [f |-> "pK", x |-> x]

\* impl: ord(b'i') -> I, ord(b'k') -> K
impl == (105 :> I) @@ (107 :> K)

\* cont(ch): I(x) is x, K(x) is the closure pK, pK(y) is x
Applied(cont, ch) ==
    IF cont.f = "I" THEN [callable |-> FALSE, r |-> ch, c |-> I]
    ELSE IF cont.f = "K" THEN [callable |-> TRUE, r |-> 0, c |-> pK(ch)]
    ELSE [callable |-> FALSE, r |-> cont.x, c |-> I]

\* apply_curry(ch): the cstack it leaves and what it returns, None written as
\* no byte at all
apply_curry_keeps_the_continuation(cs, ch) ==
    IF cs # <<>>
    THEN IF Applied(Last(cs), ch).callable
         THEN [cstack |-> Append(Front(cs), Applied(Last(cs), ch).c), r |-> <<>>]
         ELSE [cstack |-> cs, r |-> <<Applied(Last(cs), ch).r>>]
    ELSE IF ch \in DOMAIN impl
         THEN [cstack |-> Append(cs, impl[ch]), r |-> <<>>]
         ELSE [cstack |-> cs, r |-> <<ch>>]

apply_curry(cs, ch) ==
    IF cs # <<>>
    THEN IF Applied(Last(cs), ch).callable
         THEN [cstack |-> Append(Front(cs), Applied(Last(cs), ch).c), r |-> <<>>]
         ELSE [cstack |-> Front(cs), r |-> <<Applied(Last(cs), ch).r>>]
    ELSE IF ch \in DOMAIN impl
         THEN [cstack |-> Append(cs, impl[ch]), r |-> <<>>]
         ELSE [cstack |-> cs, r |-> <<ch>>]

\* The bytes typed: i, k, a byte without implementation, and the byte 0
ParamBytes == {0, 42, 105, 107}

\* yeast_0_1.cstack.clear(); apply(pstack), at the top of its loop
ApplyInit ==
    /\ stack \in BytesUpTo(ParamBytes, MaxParams)
    /\ fin = stack
    /\ rstack = <<>>
    /\ dct = <<>>
    /\ status = "running"
    /\ nfed = 0
    /\ err = ""
    /\ raiser = ""
    /\ done = <<>>
    /\ snap = <<>>
    /\ ret = NoSnapshot
    /\ words = <<>>
    /\ last_word = NoWord
    /\ pc = NoPC
    /\ eof = FALSE
    /\ ops = <<>>

\* while ch := pstack.pop(): the byte popped is not 0
ApplyHasParam == status = "running" /\ stack # <<>> /\ Last(stack) # 0

\* res = apply_curry(ch); rstack.append(res) unless res is None
ApplyTurn ==
    /\ stack' = Front(stack)
    /\ dct' = apply_curry(dct, Last(stack)).cstack
    /\ rstack' = rstack \o apply_curry(dct, Last(stack)).r
    /\ UNCHANGED <<words, last_word, pc, fin, eof, status, err, raiser, nfed,
                   done, snap, ops, ret>>

\* cont = cstack.pop(); r = cont(ch)
ApplyContinuation ==
    /\ ApplyHasParam /\ dct # <<>>
    /\ ApplyTurn

\* the cstack is empty and the byte has an implementation
ApplyImplementation ==
    /\ ApplyHasParam /\ dct = <<>> /\ Last(stack) \in DOMAIN impl
    /\ ApplyTurn

\* the cstack is empty and the byte has no implementation: return ch
ApplyAsIs ==
    /\ ApplyHasParam /\ dct = <<>> /\ Last(stack) \notin DOMAIN impl
    /\ ApplyTurn

\* while ch := pstack.pop(): the byte popped is 0, the loop ends on it
ApplyZero ==
    /\ status = "running" /\ stack # <<>> /\ Last(stack) = 0
    /\ stack' = Front(stack)
    /\ status' = "halted"
    /\ UNCHANGED <<rstack, dct, words, last_word, pc, fin, eof, err, raiser,
                   nfed, done, snap, ops, ret>>

\* pstack.pop() on the empty pstack: IndexError, caught; return rstack
ApplyEmpty ==
    /\ status = "running" /\ stack = <<>>
    /\ status' = "halted"
    /\ UNCHANGED <<stack, rstack, dct, words, last_word, pc, fin, eof, err,
                   raiser, nfed, done, snap, ops, ret>>

ApplyNext == ApplyContinuation \/ ApplyImplementation \/ ApplyAsIs \/ ApplyZero \/ ApplyEmpty

ApplySpec == ApplyInit /\ [][ApplyNext]_vars

Reverse(s) == [k \in 1..Len(s) |-> s[Len(s) + 1 - k]]

\* What is emitted for the bytes q, read in the order they are popped: `i x`
\* gives x, `k x y` gives x, any other byte gives itself
RECURSIVE Emitted(_)
Emitted(q) ==
    IF q = <<>> THEN <<>>
    ELSE IF Head(q) = 105
         THEN (IF Len(q) < 2 THEN <<>> ELSE <<q[2]>> \o Emitted(SubSeq(q, 3, Len(q))))
    ELSE IF Head(q) = 107
         THEN (IF Len(q) < 3 THEN <<>> ELSE <<q[2]>> \o Emitted(SubSeq(q, 4, Len(q))))
    ELSE <<Head(q)>> \o Emitted(Tail(q))

\* The number of continuations left pending by the bytes q: one for an
\* application that lacks arguments, none otherwise
RECURSIVE PendingAfter(_)
PendingAfter(q) ==
    IF q = <<>> THEN 0
    ELSE IF Head(q) = 105
         THEN (IF Len(q) < 2 THEN 1 ELSE PendingAfter(SubSeq(q, 3, Len(q))))
    ELSE IF Head(q) = 107
         THEN (IF Len(q) < 3 THEN 1 ELSE PendingAfter(SubSeq(q, 4, Len(q))))
    ELSE PendingAfter(Tail(q))

ApplyReturned == status = "halted"

\* C25: apply, started with an empty continuation stack, pops the parameter
\* stack from the top until it is empty: a byte with no implementation and no
\* pending continuation is emitted unchanged, `i x` emits x, `k x y` emits x
\* only, no continuation is pending after a complete application and exactly
\* one after an application that lacks arguments.
C25_ApplyReduces ==
    ApplyReturned =>
        /\ stack = <<>>
        /\ rstack = Emitted(Reverse(fin))
        /\ Len(dct) = PendingAfter(Reverse(fin))

\* The same, for the parameter stacks that hold no byte 0
C25_ApplyReducesWithoutZero ==
    (ApplyReturned /\ \A k \in 1..Len(fin) : fin[k] # 0) =>
        /\ stack = <<>>
        /\ rstack = Emitted(Reverse(fin))
        /\ Len(dct) = PendingAfter(Reverse(fin))

\* apply has returned before the parameter stack was empty
C25_StopsAtZero == ApplyReturned /\ stack # <<>> /\ rstack # <<>>


-----------------------------------------------------------------------------
(* C26 *)

\* The cursor is in the thread of the built-in ':' , at cell k
InColon(k) == status = "running" /\ pc = [word |-> "colon", i |-> k]

\* The token interpret read last is ':' and it named the built-in ':'
ColonRead ==
    /\ HasRead
    /\ Tok = ":"
    /\ NamesWord(Before.dct, ":")
    /\ Before.dct[":"] = W("colon")

\* ... and the token after it has been read in its turn (the source was not
\* closed right after ':')
NameRead == ColonRead /\ Len(done) >= 2 /\ done[Len(done) - 1] = ":"

NameAfterColon == Last(done)

\* C26: executing ':' consumes exactly the next token of the source as the
\* name of the new word: the token is pushed as a string and popped by create,
\* neither translated nor executed; when interpret is back at ini a new word
\* of that name with an empty body is the last defined word and what the
\* dictionary holds under the name, the compile flag is 'compiling', every
\* other word and dictionary entry, the data stack and the return stack are
\* as they were before ':' , and nothing was raised.
C26_ColonDefines ==
    /\ [](ColonRead => status # "error")
    /\ [](NameRead /\ AtIni =>
            /\ last_word \notin DOMAIN Before.words
            /\ words = Put(Before.words, last_word, Word(StrV(NameAfterColon), <<>>, FALSE))
            /\ dct[NameAfterColon] = W(last_word)
            /\ Compiling(dct)
            /\ DOMAIN dct = DOMAIN Before.dct \cup {NameAfterColon}
            /\ \A k \in DOMAIN Before.dct \ {NameAfterColon, "forth_interpret"} :
                  dct[k] = Before.dct[k]
            /\ stack = Before.stack
            /\ rstack = Before.rstack)
    /\ [][(InColon(0) /\ fin # <<>>) =>
            /\ InColon(1)'
            /\ stack' = Append(stack, StrV(Head(fin)))
            /\ fin' = Tail(fin)
            /\ done' = Append(done, Head(fin))
            /\ words' = words /\ dct' = dct]_vars
    /\ [][(\E k \in 1..3 : InColon(k)) => done' = done /\ fin' = fin]_vars

\* ':' was read with a value on the data stack and the name of an existing
\* word behind it: the new word is defined and nothing was executed
C26_Witness ==
    /\ NameRead
    /\ AtIni
    /\ NameAfterColon = "dup"
    /\ Before.stack = <<IntV(2)>>
    /\ stack = <<IntV(2)>>
    /\ words[last_word].code = <<>>


-----------------------------------------------------------------------------
(* C27 *)

\* The cursor is in the thread of the built-in ';' , at cell k
InSemicolon(k) == status = "running" /\ pc = [word |-> "semicolon", i |-> k]

\* The token interpret read last is ';' , it named the built-in ';' , and a
\* word was under construction
SemicolonRead ==
    /\ HasRead
    /\ Tok = ";"
    /\ NamesWord(Before.dct, ";")
    /\ Before.dct[";"] = W("semicolon")
    /\ UnderConstruction(Before)

WithExit == [Before.words EXCEPT ![Before.last_word].code = Append(@, W("exit"))]

\* C27: executing ';' appends exactly one exit cell at the end of the word
\* under construction, and only then sets the compile flag to 'interpreting':
\* when the cursor reaches the cell of ';' that sets the flag the cell is
\* appended and the dictionary is as before; when interpret is back at ini
\* the flag is 'interpreting' and the words but for that one cell, the rest of
\* the dictionary, the last defined word, the data stack and the return stack
\* are as they were before ';' ; nothing is raised and no token is read.
C27_SemicolonEnds ==
    /\ [](SemicolonRead => status # "error")
    /\ [](SemicolonRead /\ InSemicolon(3) =>
            /\ words = WithExit
            /\ dct = Before.dct
            /\ stack = Before.stack)
    /\ [](SemicolonRead /\ AtIni =>
            /\ words = WithExit
            /\ Interpreting(dct)
            /\ DOMAIN dct = DOMAIN Before.dct
            /\ \A k \in DOMAIN dct \ {"forth_interpret"} : dct[k] = Before.dct[k]
            /\ last_word = Before.last_word
            /\ stack = Before.stack
            /\ rstack = Before.rstack)
    /\ [][(\E k \in 0..4 : InSemicolon(k)) => done' = done /\ fin' = fin]_vars

\* `: double dup + ;` has been read while compiling: double ends with the one
\* exit cell and the flag is 'interpreting'
C27_Witness ==
    /\ SemicolonRead
    /\ AtIni
    /\ Compiling(Before.dct)
    /\ words[last_word].code = <<W("dup"), W("add"), W("exit")>>
    /\ Interpreting(dct)


-----------------------------------------------------------------------------
(* C28 *)

\* The token interpret read last is no word of the dictionary and was read
\* while interpreting
LiteralWhileInterpreting ==
    /\ HasRead
    /\ Tok # ""
    /\ Interpreting(Before.dct)
    /\ ~IsWord(_traduce(Before, StrV(Tok)))

\* C28: while the compile flag is 'interpreting', a token that translates to
\* a non-word literal is pushed on the data stack as that one value and
\* nothing else changes: when interpret is back at ini the data stack is the
\* stack of before with the value on top, and the words (no body is
\* extended), the dictionary with the compile flag, the last defined word and
\* the return stack are as before; nothing is raised on the way.
C28_LiteralPushed ==
    LiteralWhileInterpreting =>
        /\ status # "error"
        /\ AtIni =>
              /\ stack = Append(Before.stack, _traduce(Before, StrV(Tok)))
              /\ words = Before.words
              /\ dct = Before.dct
              /\ last_word = Before.last_word
              /\ rstack = Before.rstack

\* The number 2 was read while interpreting on a stack that held a value: it
\* is on top as the integer 2
C28_Witness ==
    /\ LiteralWhileInterpreting
    /\ AtIni
    /\ Tok = "2"
    /\ Len(stack) = 2
    /\ Last(stack) = IntV(2)


-----------------------------------------------------------------------------
(* C29 *)

\* The data stack as the code of the instruction about to run finds it: when
\* the instruction is run by exec_, exec_ has popped it from the stack first
StackFound == IF Cell = W("exec_") THEN Front(stack) ELSE stack

\* C29: ',' pops exactly one value from the data stack and appends it as one
\* raw cell at the end of the body of the last defined word (a word made by
\* create); no other word, no dictionary entry and no other cell changes; on
\* an empty data stack it fails with IndexError and appends nothing.
C29_CommaAppends ==
    [][Dispatches("comma") =>
          IF StackFound = <<>>
          THEN /\ status' = "error"
               /\ err' = IndexError
               /\ words' = words
               /\ dct' = dct
          ELSE UnderConstruction(Machine) =>
               /\ status' = "running"
               /\ stack' = Front(StackFound)
               /\ words' = [words EXCEPT ![last_word].code = Append(@, Last(StackFound))]
               /\ dct' = dct
               /\ last_word' = last_word
               /\ rstack' = rstack]_vars

\* After `: double dup + ;` the tokens `2 ,` were read: the integer 2 is the
\* last cell of double, behind its exit, and the data stack is empty again
C29_Witness ==
    /\ status = "running"
    /\ done = DoubleDef \o <<"2", ",">>
    /\ words[last_word].code = <<W("dup"), W("add"), W("exit"), IntV(2)>>
    /\ stack = <<>>


-----------------------------------------------------------------------------
(* C30 *)

\* The cell behind the lit under the cursor
LitCell == words[pc.word].code[pc.i + 2]

\* C30: at run time lit consumes exactly the one cell that follows it in the
\* current thread and pushes the value of that cell on the data stack; the
\* cell is not dispatched, whatever it is (nothing is called or returned from,
\* no word and no dictionary entry changes, nothing is raised), and the cursor
\* is left on the cell after it, in the same thread.
C30_LitPushesNextCell ==
    [][LitInThread =>
          /\ status' = "running"
          /\ stack' = Append(stack, LitCell)
          /\ pc' = [word |-> pc.word, i |-> pc.i + 2]
          /\ rstack' = rstack
          /\ words' = words
          /\ dct' = dct
          /\ last_word' = last_word
          /\ fin' = fin]_vars

\* The lit of ';' has pushed the exit cell behind it without running it: the
\* cursor is on the comma of ';' and ';' has not been returned from
C30_Witness ==
    /\ InSemicolon(2)
    /\ stack # <<>>
    /\ Last(stack) = W("exit")
    /\ rstack # <<>>


-----------------------------------------------------------------------------
(* C31 *)

\* C31: when a stack operation underflows during a run, the run aborts at
\* once: the failing primitive is the one that was dispatched, the return
\* stack is left as the primitive found it (it is not unwound), the cursor is
\* left in the thread the primitive was fetched from, and nothing catches the
\* error: no cell is fetched or run after it and no step leaves the error.
C31_UnderflowAborts ==
    [][/\ Underflow => FALSE
       /\ Underflow' =>
             /\ status = "running"
             /\ raiser' = IdOf(Dispatched)
             /\ rstack' = rstack
             /\ pc'.word = pc.word
             /\ words' = words
             /\ dct' = dct]_vars

\* `double` was run on an empty data stack: its dup underflowed two calls deep,
\* and the frames of init and of interpret are still on the return stack
C31_Witness ==
    /\ Underflow
    /\ raiser = "dup"
    /\ pc.word \notin {"init", "interpret"}
    /\ Len(rstack) >= 2


-----------------------------------------------------------------------------
(* C32 *)

\* The words the module declares and then loses: the first `def rot` is
\* decorated with word_() and so makes a word named rot, and the second
\* `def rot`, decorated with word_('rot-'), rebinds the attribute rot, the only
\* place the first word was kept
ShadowedWords == << <<"rot", Primary("rot", FALSE)>> >>

\* The names of the words declared by the module, in whatever attribute
DeclaredNames ==
    {ModuleWords[i][2].name : i \in DOMAIN ModuleWords} \cup
    {ShadowedWords[i][2].name : i \in DOMAIN ShadowedWords}

\* The name is a key of the dictionary, for a word of that name
InDictionary(name) ==
    /\ Key(name) \in DOMAIN dct
    /\ IsWord(dct[Key(name)])
    /\ words[IdOf(dct[Key(name)])].name = name

\* C32: after construction every built-in word declared by the module (every
\* primitive made by the word_ decorator, every built-in composite) is in the
\* dictionary under its own name, and translating its name returns that word.
C32_EveryDeclaredWordIsFound ==
    status = "idle" =>
        \A name \in DeclaredNames :
            /\ InDictionary(name)
            /\ _traduce(Machine, name) = dct[Key(name)]

\* What does hold after construction: every word still bound to a module
\* attribute is in the dictionary under its own name and is what its name
\* translates to
C32_EveryBoundWordIsFound ==
    status = "idle" =>
        \A i \in DOMAIN ModuleWords :
            /\ InDictionary(ModuleWords[i][2].name)
            /\ dct[Key(ModuleWords[i][2].name)] = W(ModuleWords[i][1])
            /\ _traduce(Machine, ModuleWords[i][2].name) = W(ModuleWords[i][1])

\* and the declared name rot translates to the string rot, not to a word
C32_RotIsAString ==
    status = "idle" =>
        /\ Key(StrV("rot")) \notin DOMAIN dct
        /\ _traduce(Machine, StrV("rot")) = StrV("rot")
        /\ InDictionary(StrV("rot-"))


-----------------------------------------------------------------------------
(* C33 *)

\* The exception of the wrapper in Primary.__call__, the only place where the
\* word is written into an error
RuntimeError == "RuntimeError"

\* A primitive run by _exec_instruction has raised
NativeFailure == status = "error" /\ raiser # ""

\* The name of a word that the error carries to the caller of the run: the
\* wrapper's message begins with the word; an exception of the native code
\* comes as the operation raised it
CarriedName == IF err = RuntimeError THEN raiser ELSE ""

\* C33: a failing native operation of a primitive is reported as an error that
\* carries the name of the word that failed, and after it the compile flag is
\* back to 'interpreting', as for a stack underflow.
C33_NativeFailureIsNamed ==
    NativeFailure =>
        /\ CarriedName = raiser
        /\ Interpreting(dct)

\* What the run does report: the exception of the native code, unwrapped
C33_NativeFailureIsRaw ==
    NativeFailure => err \in {IndexError, TypeError, AttributeError, KeyError}

\* A primitive other than a stack operation has failed while compiling
C33_FailedWhileCompiling ==
    /\ NativeFailure
    /\ err # IndexError
    /\ Compiling(dct)


-----------------------------------------------------------------------------
\* yeast_0_0_2.live_char_tty: one key press at a time on the pending queue.
\*   stack = pqueue, done = what was written to out (code points), ops = the
\*   key presses so far, each [key, data]

MaxKeys == 4

\* Keys.Enter and Keys.Backspace, with the data the terminal sends for them,
\* and a key that is its own character
KeysEnter == "c-m"
KeysBackspace == "c-h"
KeyPress(key, data) == [key |-> key, data |-> data]
CharKey(c) == KeyPress("char", <<c>>)

\* The key presses tried: Enter, Backspace, the letter a, the backtick, a
\* letter outside ASCII (e acute), and a key with two characters of data
KeyPresses ==
    {KeyPress(KeysEnter, <<13>>), KeyPress(KeysBackspace, <<127>>),
     CharKey(97), CharKey(Backtick), CharKey(233), KeyPress("paste", <<97, 97>>)}

\* "Error evaluating parameters. Reset!\n> "
ResetMessage ==
    <<69, 114, 114, 111, 114, 32, 101, 118, 97, 108, 117, 97, 116, 105, 110,
      103, 32, 112, 97, 114, 97, 109, 101, 116, 101, 114, 115, 46, 32, 82,
      101, 115, 101, 116, 33, 10, 62, 32>>

\* "> ", "\n" and "\b\033[K"
Prompt == <<62, 32>>
EndOfLine == <<10>>
EraseChar == <<8, 27, 91, 75>>

UnicodeEncodeError == "UnicodeEncodeError"
NotImplementedError == "NotImplementedError"

\* live_line_eval(s): a new result, the bytes of s given to live_char_eval from
\* left to right; s itself is only read
RECURSIVE live_line_eval(_)
live_line_eval(s) ==
    IF s = <<>> THEN [err |-> "", result |-> <<>>]
    ELSE LET r == live_line_eval(Front(s))
         IN  IF r.err # "" THEN r
             ELSE IF Last(s) = Backtick /\ r.result = <<>> THEN [r EXCEPT !.err = IndexError]
             ELSE [r EXCEPT !.result = live_char_eval(Last(s), r.result)]

\* live_char_tty as it would be if the queue were kept after a failed
\* evaluation
live_char_tty_keeps_the_queue(key_press, pqueue, out) ==
    IF key_press.key = KeysEnter
    THEN LET r == live_line_eval(pqueue)
         IN  IF r.err = IndexError
             THEN [pqueue |-> pqueue, out |-> out \o EndOfLine \o ResetMessage, err |-> ""]
             ELSE [pqueue |-> r.result, out |-> out \o EndOfLine \o Prompt \o r.result, err |-> ""]
    ELSE IF key_press.key = KeysBackspace
    THEN IF pqueue = <<>>
         THEN [pqueue |-> pqueue, out |-> out \o EraseChar, err |-> IndexError]
         ELSE [pqueue |-> Front(pqueue), out |-> out \o EraseChar, err |-> ""]
    ELSE IF \E k \in DOMAIN key_press.data : key_press.data[k] > 127
    THEN [pqueue |-> pqueue, out |-> out, err |-> UnicodeEncodeError]
    ELSE IF Len(key_press.data) = 1
    THEN [pqueue |-> Append(pqueue, key_press.data[1]), out |-> out \o key_press.data, err |-> ""]
    ELSE [pqueue |-> pqueue, out |-> out, err |-> NotImplementedError]

\* live_char_tty(key_press, pqueue, out): the queue and the output it leaves,
\* and the exception it lets out, if any
live_char_tty(key_press, pqueue, out) ==
    IF key_press.key = KeysEnter
    THEN LET r == live_line_eval(pqueue)
         IN  IF r.err = IndexError
             THEN [pqueue |-> <<>>, out |-> out \o EndOfLine \o ResetMessage, err |-> ""]
             ELSE [pqueue |-> r.result, out |-> out \o EndOfLine \o Prompt \o r.result, err |-> ""]
    ELSE IF key_press.key = KeysBackspace
    THEN IF pqueue = <<>>
         THEN [pqueue |-> pqueue, out |-> out \o EraseChar, err |-> IndexError]
         ELSE [pqueue |-> Front(pqueue), out |-> out \o EraseChar, err |-> ""]
    ELSE IF \E k \in DOMAIN key_press.data : key_press.data[k] > 127
    THEN [pqueue |-> pqueue, out |-> out, err |-> UnicodeEncodeError]
    ELSE IF Len(key_press.data) = 1
    THEN [pqueue |-> Append(pqueue, key_press.data[1]), out |-> out \o key_press.data, err |-> ""]
    ELSE [pqueue |-> pqueue, out |-> out, err |-> NotImplementedError]

\* repl: the line starts empty
LiveTtyInit ==
    /\ stack = <<>>
    /\ done = <<>>
    /\ ops = <<>>
    /\ status = "running"
    /\ err = ""
    /\ raiser = ""
    /\ nfed = 0
    /\ fin = <<>>
    /\ snap = <<>>
    /\ ret = NoSnapshot
    /\ rstack = <<>>
    /\ dct = <<>>
    /\ words = <<>>
    /\ last_word = NoWord
    /\ pc = NoPC
    /\ eof = FALSE

\* keys_ready: live_char_tty(key_press, line, output) for the next key press
Press(key_press) ==
    /\ status = "running"
    /\ Len(ops) < MaxKeys
    /\ LET r == live_char_tty(key_press, stack, done)
       IN  /\ stack' = r.pqueue
           /\ done' = r.out
           /\ err' = r.err
           /\ status' = IF r.err = "" THEN "running" ELSE "error"
    /\ ops' = Append(ops, key_press)
    /\ UNCHANGED <<rstack, dct, words, last_word, pc, fin, eof, raiser, nfed, snap, ret>>

LiveTtyNext == \E key_press \in KeyPresses : Press(key_press)

LiveTtySpec == LiveTtyInit /\ [][LiveTtyNext]_vars

\* Some backtick of the queue arrives while nothing is kept
EvalFails(p) ==
    \E k \in 1..Len(p) : p[k] = Backtick /\ NotRemoved(SubSeq(p, 1, k - 1)) = <<>>

\* The key pressed by the step
Pressed == Last(ops')

\* What Enter does: the whole queue is evaluated; on success the queue becomes
\* the result and the prompt shows it, on IndexError the queue is cleared and
\* the reset message is written
EnterEvaluates ==
    Pressed.key = KeysEnter =>
        /\ status' = "running"
        /\ IF EvalFails(stack)
           THEN /\ stack' = <<>>
                /\ done' = done \o EndOfLine \o ResetMessage
           ELSE /\ stack' = NotRemoved(stack)
                /\ done' = done \o EndOfLine \o Prompt \o NotRemoved(stack)

\* The key only appends its character to the queue (and echoes it)
OnlyAppends ==
    /\ status' = "running"
    /\ stack' = Append(stack, Pressed.data[1])
    /\ done' = done \o Pressed.data

\* C34: in live_char_tty Enter evaluates the whole pending queue: on success
\* the queue is replaced by the result, shown on the next prompt; on
\* IndexError the queue is cleared and the reset message is written; any other
\* key with one ASCII character of data, Backspace excepted, only appends that
\* character to the queue.
C34_EnterEvaluatesCharAppends ==
    [][ops' # ops =>
          /\ EnterEvaluates
          /\ (/\ Pressed.key \notin {KeysEnter, KeysBackspace}
              /\ Len(Pressed.data) = 1
              /\ Pressed.data[1] <= 127) => OnlyAppends]_vars

\* C34 as stated: every key other than Enter with a single character only
\* appends that character to the queue.
C34_AsStated ==
    [][ops' # ops =>
          /\ EnterEvaluates
          /\ (Pressed.key # KeysEnter /\ Len(Pressed.data) = 1) => OnlyAppends]_vars

\* Enter was pressed twice, once on a queue whose backtick had nothing to
\* remove (reset) and once on a queue that evaluates (to the letter a, shown on
\* the prompt)
C34_Witness ==
    /\ Len(ops) = 4
    /\ ops[2].key = KeysEnter /\ ops[1] = CharKey(Backtick)
    /\ ops[4].key = KeysEnter /\ ops[3] = CharKey(97)
    /\ stack = <<97>>
    /\ done = <<Backtick>> \o EndOfLine \o ResetMessage \o <<97>> \o EndOfLine \o Prompt \o <<97>>


-----------------------------------------------------------------------------
(* C35 *)

\* The cursor is on cell k of interpret
InInterpret(k) == status = "running" /\ pc = [word |-> "interpret", i |-> k]

\* What the token read last translates to
TokValue == _traduce(Before, StrV(Tok))

\* The token read last names a word that the pass runs: any word while
\* interpreting, an immediate word while compiling
TokIsRun ==
    /\ IsWord(TokValue)
    /\ Interpreting(Before.dct) \/ Before.words[IdOf(TokValue)].imm

\* C35: each pass of interpret comes back to its token-read cell with the data
\* stack changed only by the token's own effect, while interpreting and while
\* compiling alike. A word that is run finds the stack as it was before the
\* token was read (exec_ holds the word alone on top of it) and the stack it
\* leaves is the stack at the token-read cell; a literal leaves its value on
\* the old stack while interpreting; a compiled word or literal leaves the old
\* stack: no token string, no is-word, immediate or mode flag stays.
C35_PassLeavesNoFlag ==
    /\ [](InInterpret(14) => TokIsRun /\ stack = Append(Before.stack, TokValue))
    /\ [](InInterpret(17) => ~TokIsRun /\ stack = Append(Before.stack, TokValue))
    /\ [](InInterpret(15) \/ InInterpret(18) \/ InInterpret(23) \/ InInterpret(29) => HasRead /\ Tok # "")
    /\ [](InInterpret(18) \/ InInterpret(29) => Compiling(Before.dct) /\ stack = Before.stack)
    /\ [](InInterpret(23) => Interpreting(Before.dct) /\ stack = Append(Before.stack, TokValue))
    /\ [][InInterpret(15) \/ InInterpret(18) \/ InInterpret(23) \/ InInterpret(29) =>
             /\ stack' = stack
             /\ InInterpret(1)']_vars
    /\ [][InInterpret(14) /\ status' = "running" /\ ~is_instruction(Machine, IdOf(TokValue)) =>
             /\ stack' = Before.stack
             /\ rstack' = Append(rstack, Frame([word |-> "interpret", i |-> 15]))]_vars
    /\ [][InInterpret(14) /\ status' = "running" /\ is_instruction(Machine, IdOf(TokValue)) =>
             /\ stack' = Code([Machine EXCEPT !.stack = Before.stack], IdOf(TokValue)).stack
             /\ InInterpret(15)']_vars
    /\ [][InInterpret(1) /\ HasRead /\ InInterpret(1)' => stack' = stack]_vars

\* After `: double dup + ;`, compiled word by word, the tokens `2 double` were
\* interpreted: the pass of double is back on the token-read cell and the
\* stack holds 4 and nothing else
C35_Witness ==
    /\ InInterpret(1)
    /\ done = DoubleDef \o <<"2", "double">>
    /\ stack = <<IntV(4)>>


-----------------------------------------------------------------------------
(* C36 *)

\* The cells of interpret that are the operand of the cell before them: the
\* offset of a branch or 0branch, the cell quoted by tick or lit
RECURSIVE IsOperand(_)
IsOperand(k) ==
    /\ k >= 1
    /\ ~IsOperand(k - 1)
    /\ interpret[k] \in {W("branch"), W("zbranch"), W("tick"), W("lit")}

\* The cells of interpret, counted from 0, that hold a branch or a 0branch
Jumps == {k \in 0..(Len(interpret) - 1) : ~IsOperand(k) /\ interpret[k + 1] \in {W("branch"), W("zbranch")}}

\* Where the jump at cell k lands when it is taken: its offset is added to the
\* cursor, which is behind the offset by then
Landing(k) == k + 2 + Num(interpret[k + 2])

\* The cursor is on a branch or 0branch of interpret
AtJump == status = "running" /\ pc.word = "interpret" /\ pc.i \in Jumps

\* C36: every branch and 0branch of interpret lands inside the thread on the
\* first cell of an instruction, never on an offset, and every backward one
\* lands on the token-read cell `word`; so the `[` at the head of the thread
\* runs once per run, before any token is read, and no other cell of
\* interpret than the word it runs for a token changes the compile flag: the
\* flag set by the built-in `]` or `:` is still set when the next token is
\* read.
C36_JumpsLandOnInstructions ==
    /\ [](words["interpret"].code = interpret)
    /\ [](\A k \in Jumps :
            /\ Landing(k) \in 0..(Len(interpret) - 1)
            /\ ~IsOperand(Landing(k))
            /\ Landing(k) < k => interpret[Landing(k) + 1] = W("word"))
    /\ [][AtJump /\ status' = "running" =>
             /\ pc'.word = "interpret"
             /\ pc'.i \in {pc.i + 2, Landing(pc.i)}
             /\ ~IsOperand(pc'.i)
             /\ pc'.i < pc.i => InInterpret(1)']_vars
    /\ [](InInterpret(0) => ~HasRead /\ done = <<>> /\ rstack = <<Frame([word |-> "init", i |-> 1])>>)
    /\ [][status = "running" /\ pc.word = "interpret" /\ pc.i \notin {0, 14} /\ status' = "running" =>
             dct'["forth_interpret"] = dct["forth_interpret"]]_vars
    /\ [](InInterpret(1) /\ HasRead /\ TokValue \in {W("rbrac"), W("colon")} => Compiling(dct))

\* `: double` was read and then two more tokens while compiling: three passes
\* later the cursor is back on the token-read cell, by a backward branch of
\* the compile side, and the flag is still 'compiling'
C36_Witness ==
    /\ InInterpret(1)
    /\ Len(done) >= 4
    /\ SubSeq(done, 1, 2) = DoubleHead
    /\ Compiling(Before.dct)
    /\ NamesWord(Before.dct, Tok)
    /\ Compiling(dct)


-----------------------------------------------------------------------------
(* C37 *)

\* C37: in every state of a run (none of the runs executes `!`) every value
\* stored in the dictionary is a Word: `[` and `]` neither add nor replace a
\* dictionary entry, and the name of every built-in word, forth_interpret
\* included, keeps translating to that word.
C37_DictionaryHoldsWords ==
    /\ [](\A k \in DOMAIN dct : IsWord(dct[k]))
    /\ [](\A i \in DOMAIN ModuleWords :
            _traduce(Machine, ModuleWords[i][2].name) = W(ModuleWords[i][1]))
    /\ [][Dispatches("lbrac") \/ Dispatches("rbrac") => dct' = dct]_vars

\* What does hold: every entry but the one under forth_interpret is a Word, and
\* apart from forth_interpret the built-in names keep translating to their
\* words unless a definition takes the name
C37_AllButTheFlagAreWords ==
    \A k \in DOMAIN dct \ {"forth_interpret"} : IsWord(dct[k])

\* and once the run has reached its token-read cell the entry under
\* forth_interpret is a bool, which is what the name translates to
C37_TheFlagIsABool ==
    HasRead =>
        /\ dct["forth_interpret"].t = "bool"
        /\ _traduce(Machine, StrV("forth_interpret")) = dct["forth_interpret"]


-----------------------------------------------------------------------------
\* Runs of whole programs: a colon definition, then its call.  The variables
\* are those of Spec; the source holds the whole program from the start and
\* ends when it is read.

\* The programs: each defines words whose bodies hold literals and
\* non-immediate words that return, and calls them
ReturnScripts ==
    { <<":", "double", "dup", "+", ";", "2", "double", "bye">>,
      <<":", "double", "2", "2", "+", ";", "double", "double", "bye">>,
      <<":", "double", "dup", "+", ";", ":", "quad", "double", "double", ";", "2", "quad", "bye">>,
      <<":", "double", ";", "double", "bye">>,
      <<":", "double", "dup", "+", ";", "2", "double">> }

ReturnInit ==
    \E script \in ReturnScripts :
        /\ Constructed(Forth(script))
        /\ nfed = 0
        /\ done = <<>>
        /\ snap = NoSnap
        /\ ops = <<>>
        /\ ret = None

ReturnNext ==
    \/ Run
    \/ Close
    \/ Word_ \/ Dup \/ Drop \/ Add \/ Or \/ Branch \/ ZBranch \/ Exit
    \/ Lit \/ Tick \/ Comma \/ LBrac \/ RBrac \/ ForthInterpret \/ IsImmediate
    \/ WordFromName \/ Create
    \/ End \/ Call

\* The loop of _run goes on to its next turn as long as there is one, and the
\* source ends when nothing is left to read
ReturnSpec == ReturnInit /\ [][ReturnNext]_vars /\ WF_vars(ReturnNext)

\* The calls of defined words in these programs, each the depth of the return
\* stack at the call and the cell behind the call: from interpret, behind its
\* exec_, and from the body of quad, a word defined second
CallSites ==
    {<<1, [word |-> "interpret", i |-> 15]>>,
     <<2, [word |-> "w2", i |-> 1]>>,
     <<2, [word |-> "w2", i |-> 2]>>}

\* A word made by a colon definition is about to be called
CallsDefined == CallStep /\ words[IdOf(Dispatched)].kind = "word"

\* ... from depth d of the return stack, the cell behind the call being p
CallsDefinedFrom(d, p) ==
    /\ CallsDefined
    /\ Len(rstack) = d
    /\ p = [word |-> pc.word, i |-> pc.i + 1]

\* The run is back on p at depth d
ReturnedTo(d, p) == status = "running" /\ Len(rstack) = d /\ pc = p

\* C38: a word defined by `: name body ;`, whose body holds only literals and
\* non-immediate words that themselves return, eventually returns to its
\* caller once it is called: the cursor is on the cell right behind the call
\* and the return stack has the depth it had before the call.
C38_DefinedWordReturns ==
    /\ [](CallsDefined => <<Len(rstack), [word |-> pc.word, i |-> pc.i + 1]>> \in CallSites)
    /\ \A site \in CallSites : CallsDefinedFrom(site[1], site[2]) ~> ReturnedTo(site[1], site[2])

\* quad, defined as `double double`, was called on 2 and has returned to
\* interpret, behind the exec_ that called it, with 8 on the data stack and the
\* return stack as deep as before the call
C38_Witness ==
    /\ InInterpret(15)
    /\ Tok = "quad"
    /\ words[IdOf(Before.dct["quad"])].kind = "word"
    /\ stack = <<IntV(8)>>
    /\ Len(rstack) = Len(Before.rstack)


-----------------------------------------------------------------------------
(* C39 *)

\* The bytes of the input before the index of the error
BeforeTheError == SubSeq(fin, 1, ret.cursor_position)

\* C39: eval does not roll back: when it raises StackUnderflow or UnknownToken
\* at index i of the input, the stack it was given holds exactly the result of
\* evaluating the bytes before i (on the stack as it was at the start), and
\* the byte at i and those behind it have had no effect on the stack or on
\* the output: the raising turn changes neither, and no turn follows it.
C39_NoRollBack ==
    /\ [](status = "error" =>
            /\ err \in {"StackUnderflow", "UnknownToken"}
            /\ ret.cursor_position = nfed
            /\ nfed < Len(fin)
            /\ stack = Kept(snap, BeforeTheError) \o Unpopped(BeforeTheError)
            /\ done = Popped(snap, BeforeTheError)
            /\ BelowLetters(BeforeTheError) <= Len(snap)
            /\ \A k \in 1..nfed : fin[k] \in DOMAIN dict_prototype)
    /\ [][status' = "error" =>
             /\ status = "running"
             /\ stack' = stack
             /\ done' = done
             /\ nfed' = nfed]_vars
    /\ [][status = "error" => FALSE]_vars

\* eval has raised UnknownToken after a letter was pushed and a byte popped:
\* the stack is not the one eval was given, one byte is in the output, and a
\* byte follows the unknown one in the input
C39_Witness ==
    /\ status = "error" /\ err = "UnknownToken"
    /\ stack # snap
    /\ done # <<>>
    /\ Unpopped(BeforeTheError) # <<>>
    /\ nfed + 1 < Len(fin)


-----------------------------------------------------------------------------
\* rot and rot-: the two functions called rot of the module, run in any order
\* on a data stack.  done = the data stack before the first of them, ops = the
\* words run so far

MaxRotDepth == 4
MaxRots == 3

\* def rot, decorated with word_(): the word rot
rot(f) ==
    LET f1 == pop(f)
        f2 == pop(f1)
        f3 == pop(f2)
    IN  IF Raised(f3) THEN f3
        ELSE push(push(push(f3, f2.ret), f1.ret), f3.ret)

\* def rot, decorated with word_('rot-'): the word rot-
rot_minus(f) ==
    LET f1 == pop(f)
        f2 == pop(f1)
        f3 == pop(f2)
    IN  IF Raised(f3) THEN f3
        ELSE push(push(push(f3, f2.ret), f1.ret), f3.ret)

RotInit ==
    /\ \E s \in BytesUpTo(Values, MaxRotDepth) :
          /\ Constructed([Forth(<<>>) EXCEPT !.stack = s])
          /\ done = s
    /\ nfed = 0
    /\ snap = NoSnap
    /\ ops = <<>>
    /\ ret = None

\* One of the two words is run by a caller that caught nothing before
RunRot(name, f) ==
    /\ status = "idle"
    /\ stack' = f.stack /\ status' = f.status /\ err' = f.err
    /\ ops' = Append(ops, name)
    /\ UNCHANGED <<rstack, dct, words, last_word, pc, fin, eof, raiser, nfed,
                   done, snap, ret>>

Rot == Len(ops) < MaxRots /\ RunRot("rot", rot(Machine))
RotMinus == Len(ops) < MaxRots /\ RunRot("rot-", rot_minus(Machine))

RotNext == Rot \/ RotMinus

RotSpec == RotInit /\ [][RotNext]_vars

\* C40: rot- is the inverse of rot: on every data stack of depth at least 3,
\* rot then rot-, and rot- then rot, leave the stack exactly as it was, and
\* both words leave every element below the top three as it was.
C40_RotMinusInvertsRot ==
    /\ [](Len(done) >= 3 /\ ops \in {<<"rot", "rot-">>, <<"rot-", "rot">>} =>
            /\ status = "idle"
            /\ stack = done)
    /\ [][Len(stack) >= 3 /\ ops' # ops =>
             /\ Len(stack') = Len(stack)
             /\ SubSeq(stack', 1, Len(stack) - 3) = SubSeq(stack, 1, Len(stack) - 3)]_vars

\* What does hold: the two words do the same, each brings the third element
\* from the top to the top and leaves those below alone, and it takes three of
\* them, whichever, to restore the stack
C40_RotMinusIsRot ==
    /\ [][Len(stack) >= 3 /\ ops' # ops =>
             /\ status' = "idle"
             /\ stack' = SubSeq(stack, 1, Len(stack) - 3)
                         \o <<stack[Len(stack) - 1], stack[Len(stack)], stack[Len(stack) - 2]>>]_vars
    /\ [](Len(done) >= 3 /\ Len(ops) = 3 => stack = done)

\* rot and then rot- were run on a stack of four values, and the stack is not
\* what it was, though its bottom element is
C40_NotRestored ==
    /\ ops = <<"rot", "rot-">>
    /\ Len(done) = 4
    /\ stack # done
    /\ stack[1] = done[1]

=============================================================================
